---- MODULE Spec2Model ----
(***************************************************************************)
(* A model of the zero-copy reduction engines (Reducer, SeriesBinGrouper,  *)
(* SeriesGrouper, apply_frame_axis0 over Slider / BlockSlider) and of the  *)
(* datetime conversion engine (array_to_datetime and its fallbacks).       *)
(*                                                                         *)
(* Every engine is a synchronous call.  A call is cut into steps: entry    *)
(* (the code before the loop), one step per loop iteration (the whole loop *)
(* body, the callback's outcome drawn with \E), and the exit (the finally  *)
(* block and what follows it).  Each engine has its own variables and its  *)
(* own specification; the variables of the other engines stay idle.        *)
(*                                                                         *)
(* Pointers are pairs <<segment, byte offset>>: the segment names the      *)
(* allocation a pointer points into.                                       *)
(***************************************************************************)
EXTENDS Integers, Sequences, FiniteSets, TLC

\* ------------------------------------------------------------------ bounds
\* Longest value array handed to a grouper.
MaxLen == 4
\* Largest ngroups handed to SeriesGrouper.
MaxGroups == 2
\* Longest bin-edge array handed to SeriesBinGrouper.
MaxBins == 3
\* Most row ranges handed to apply_frame_axis0, and the rows of its frame.
MaxRanges == 2
MaxRows == 2
\* Column blocks of the frame.
NBlocks == 2
\* Largest numbers of rows and of columns of the matrix handed to Reducer.
MaxR == 2
MaxC == 2
\* Longest array handed to array_to_datetime, and the longest one whose
\* elements are drawn from every kind of element rather than the core kinds.
MaxValues == 3
MaxMixed == 2
\* Longest array handed to format_array_from_datetime.
MaxFormatted == 3
\* Longest array handed to ints_to_pydatetime.
MaxInts == 3
\* Longest array handed to array_with_unit_to_datetime.
MaxUnitValues == 3
\* Bytes per element of the arrays (dtype.itemsize; the strides of the
\* contiguous 1-D arrays).
ItemSize == 8

\* ------------------------------------------------------------------- state
\* sg_index_dtype_same and sb_index_dtype_same say whether the index of the
\* dummy has the dtype of the index of the series (_check_dummy compares the
\* dtypes of the values only).
\* sg_mapping, sb_mapping and fa_mapping are the lookup structure of the
\* engine of the index handed to the callback (index._engine.mapping), and
\* sg_discarded, sb_discarded and fa_discarded what the last clear_mapping()
\* found there.
\* SeriesGrouper: the object's fields (labels, ngroups, len(arr)) and the
\* locals of get_result.
VARIABLES sg_pc, sg_index_dtype_same, sg_mapping, sg_discarded, sg_n,
          sg_labels, sg_ngroups, sg_i, sg_group_size, sg_counts, sg_result,
          sg_initialized, sg_vslider, sg_islider, sg_calls, sg_exc, sg_ret

sgVars == <<sg_pc, sg_index_dtype_same, sg_mapping, sg_discarded, sg_n,
            sg_labels, sg_ngroups, sg_i, sg_group_size, sg_counts, sg_result,
            sg_initialized, sg_vslider, sg_islider, sg_calls, sg_exc, sg_ret>>

\* SeriesBinGrouper: the object's fields (bins, ngroups, len(arr)) and the
\* locals of get_result.
VARIABLES sb_pc, sb_index_dtype_same, sb_mapping, sb_discarded, sb_n, sb_bins,
          sb_ngroups, sb_i, sb_group_size, sb_counts, sb_result,
          sb_initialized, sb_vslider, sb_islider, sb_calls, sb_exc, sb_ret

sbVars == <<sb_pc, sb_index_dtype_same, sb_mapping, sb_discarded, sb_n,
            sb_bins, sb_ngroups, sb_i, sb_group_size, sb_counts, sb_result,
            sb_initialized, sb_vslider, sb_islider, sb_calls, sb_exc, sb_ret>>

\* apply_frame_axis0: its arguments (len(starts), whether frame.index has
\* complex internals) and its locals; fa_calls lists the windows handed to f.
VARIABLES fa_pc, fa_mapping, fa_discarded, fa_n, fa_complex, fa_slider, fa_i,
          fa_results, fa_mutated, fa_require_slow_apply, fa_calls, fa_exc,
          fa_ret

faVars == <<fa_pc, fa_mapping, fa_discarded, fa_n, fa_complex, fa_slider,
            fa_i, fa_results, fa_mutated, fa_require_slow_apply, fa_calls,
            fa_exc, fa_ret>>

\* Reducer: its arguments (the matrix as laid out in memory, its shape and
\* order, the axis, whether dummy is series-like), the object's fields and the
\* locals of get_result; rd_calls lists the chunks handed to f.
VARIABLES rd_pc, rd_shape, rd_order, rd_input, rd_axis, rd_typ, rd_arr,
          rd_nresults, rd_chunksize, rd_increment, rd_chunk, rd_dummy_buf,
          rd_i, rd_result, rd_calls, rd_exc, rd_ret

rdVars == <<rd_pc, rd_shape, rd_order, rd_input, rd_axis, rd_typ, rd_arr,
            rd_nresults, rd_chunksize, rd_increment, rd_chunk, rd_dummy_buf,
            rd_i, rd_result, rd_calls, rd_exc, rd_ret>>

\* array_to_datetime: its arguments (values, errors, utc, require_iso8601)
\* and its locals; ad_exit names the path the call left by.
VARIABLES ad_pc, ad_values, ad_errors, ad_utc, ad_require_iso8601, ad_i,
          ad_iresult, ad_seen_integer, ad_seen_string, ad_seen_datetime,
          ad_seen_datetime_offset, ad_out_tzoffset_vals, ad_exit, ad_ret

adVars == <<ad_pc, ad_values, ad_errors, ad_utc, ad_require_iso8601, ad_i,
            ad_iresult, ad_seen_integer, ad_seen_string, ad_seen_datetime,
            ad_seen_datetime_offset, ad_out_tzoffset_vals, ad_exit, ad_ret>>

\* format_array_from_datetime: its arguments (values, tz, format, na_rep)
\* and its locals; fm_passed is what values held when the call was made.
VARIABLES fm_pc, fm_passed, fm_values, fm_tz, fm_format, fm_na_rep, fm_basic_format,
          fm_consider_values, fm_show_ns, fm_show_us, fm_show_ms, fm_i,
          fm_result

fmVars == <<fm_pc, fm_passed, fm_values, fm_tz, fm_format, fm_na_rep, fm_basic_format,
            fm_consider_values, fm_show_ns, fm_show_us, fm_show_ms, fm_i,
            fm_result>>

\* ints_to_pydatetime: its arguments (arr, tz, box) and its locals.
VARIABLES ip_pc, ip_arr, ip_tz, ip_box, ip_i, ip_result, ip_exc

ipVars == <<ip_pc, ip_arr, ip_tz, ip_box, ip_i, ip_result, ip_exc>>

\* array_with_unit_to_datetime with a unit other than 'ns': its arguments
\* (values, with the kind of its dtype, and errors) and its locals.
VARIABLES au_pc, au_values, au_kind, au_errors, au_i, au_iresult, au_oresult,
          au_exc, au_ret

auVars == <<au_pc, au_values, au_kind, au_errors, au_i, au_iresult,
            au_oresult, au_exc, au_ret>>

vars == <<sgVars, sbVars, faVars, rdVars, adVars, fmVars, ipVars, auVars>>

\* What a step of one engine leaves alone: the other engines.
sgOthers == <<sbVars, faVars, rdVars, adVars, fmVars, ipVars, auVars>>
sbOthers == <<sgVars, faVars, rdVars, adVars, fmVars, ipVars, auVars>>
faOthers == <<sgVars, sbVars, rdVars, adVars, fmVars, ipVars, auVars>>
rdOthers == <<sgVars, sbVars, faVars, adVars, fmVars, ipVars, auVars>>
adOthers == <<sgVars, sbVars, faVars, rdVars, fmVars, ipVars, auVars>>
fmOthers == <<sgVars, sbVars, faVars, rdVars, adVars, ipVars, auVars>>
ipOthers == <<sgVars, sbVars, faVars, rdVars, adVars, fmVars, auVars>>
auOthers == <<sgVars, sbVars, faVars, rdVars, adVars, fmVars, ipVars>>

\* ------------------------------------------------------------ small helpers
RECURSIVE SumTo(_, _)
SumTo(f, k) == IF k < 0 THEN 0 ELSE f[k] + SumTo(f, k - 1)

\* Sum of a function over 0..n-1.
SumFn(f, n) == SumTo(f, n - 1)

RECURSIVE SeqSum(_)
SeqSum(s) == IF s = <<>> THEN 0 ELSE Head(s) + SeqSum(Tail(s))

CountEq(s, v) == Cardinality({k \in 1..Len(s) : s[k] = v})

Ptr(seg, off) == [seg |-> seg, off |-> off]

\* An ndarray header as far as the sliders touch it: data pointer, shape[0],
\* strides[0].
NdArray(data, len, stride) == [data |-> data, shape |-> len, strides |-> stride]

\* ------------------------------------------------------------------ Slider
\* Slider.__init__: records the buffer's pointer, length and stride and points
\* the buffer at the start of values.
SliderInit(values, buf) ==
    [ built       |-> TRUE,
      values      |-> values,
      stride      |-> values.strides,
      orig_data   |-> buf.data,
      orig_len    |-> buf.shape,
      orig_stride |-> buf.strides,
      buf         |-> [buf EXCEPT !.data = values.data,
                                  !.strides = values.strides] ]

\* The asserts of Slider.__init__ hold: the arrays are 1-D, and values and
\* buf have one dtype.
SliderAsserts(same_dtype) == same_dtype

\* A slip: the buffer advances by k bytes, not by k items.
SliderAdvanceBytes(s, k) ==
    [s EXCEPT !.buf.data = Ptr(s.buf.data.seg, s.buf.data.off + k)]

SliderAdvance(s, k) ==
    [s EXCEPT !.buf.data = Ptr(s.buf.data.seg, s.buf.data.off + s.stride * k)]

SliderMove(s, start, end) ==
    [s EXCEPT !.buf.data = Ptr(s.values.data.seg,
                               s.values.data.off + s.stride * start),
              !.buf.shape = end - start]

SliderSetLength(s, length) == [s EXCEPT !.buf.shape = length]

\* A slip: only the length is put back.
SliderResetLengthOnly(s) == [s EXCEPT !.buf.shape = s.orig_len]

SliderReset(s) ==
    [s EXCEPT !.buf.shape = s.orig_len,
              !.buf.data = s.orig_data,
              !.buf.strides = s.orig_stride]

\* A slider that has not been constructed.
NoSlider == [built |-> FALSE]

\* Python's None for an ndarray variable, and an allocated result array.
None == [allocated |-> FALSE]
Allocated(items) == [allocated |-> TRUE, items |-> items]

\* Nothing returned (yet).
NoReturn == [kind |-> "none"]

\* ------------------------------------------------ the index engine's mapping
\* The engine has built no mapping, or one over the window the index showed
\* when a lookup was made.
NoMapping == [populated |-> FALSE]
Mapping(buf) == [populated |-> TRUE, data |-> buf.data, shape |-> buf.shape]

\* A slip: the mapping is left as it is.
KeepMapping(mapping) == mapping

\* index._engine.clear_mapping().
ClearMapping(mapping) == NoMapping

\* ------------------------------------------------- results of a callback
\* What f(cached_typ) gives back, after _extract_result: a scalar, an ndarray
\* that _extract_result does not unwrap, a list of some length, or an
\* exception.
GroupCallbackResults(group_size) ==
    { [kind |-> "scalar"], [kind |-> "ndarray"], [kind |-> "raise"],
      [kind |-> "list", len |-> group_size],
      [kind |-> "list", len |-> group_size + 1] }

\* A slip: only the list test is made.
DoesNotReduceListsOnly(obj, cnt) == obj.kind = "list" /\ obj.len = cnt

\* _get_result_array: TRUE when it raises ValueError('Function does not
\* reduce') for obj; otherwise it returns np.empty(size, dtype='O').
DoesNotReduce(obj, cnt) ==
    \/ obj.kind = "ndarray"
    \/ (obj.kind = "list" /\ obj.len = cnt)

\* ------------------------------------------------------------ SeriesGrouper
\* The arrays a grouper is built on: self.arr, self.index and the two
\* zero-length dummies (dummy = obj[:0]).
ArrOf(n) == NdArray(Ptr("arr", 0), n, ItemSize)
IndexOf(n) == NdArray(Ptr("index", 0), n, ItemSize)
DummyArr == NdArray(Ptr("dummy_arr", 0), 0, ItemSize)
DummyIndex == NdArray(Ptr("dummy_index", 0), 0, ItemSize)

\* labels: one of -1, 0..ngroups-1 per row, in any order.
LabelArrays(n, ngroups) == [1..n -> (-1)..(ngroups - 1)]

SGIdle ==
    /\ sg_pc = "idle" /\ sg_index_dtype_same = TRUE
    /\ sg_mapping = NoMapping /\ sg_discarded = NoMapping
    /\ sg_n = 0 /\ sg_labels = <<>> /\ sg_ngroups = 0
    /\ sg_i = 0 /\ sg_group_size = 0 /\ sg_counts = <<>>
    /\ sg_result = None /\ sg_initialized = FALSE
    /\ sg_vslider = NoSlider /\ sg_islider = NoSlider
    /\ sg_calls = <<>> /\ sg_exc = "none" /\ sg_ret = NoReturn

\* The state after SeriesGrouper.__init__.
SGInit ==
    /\ sg_pc = "ready"
    /\ sg_index_dtype_same \in BOOLEAN
    /\ sg_mapping = NoMapping /\ sg_discarded = NoMapping
    /\ sg_n \in 0..MaxLen
    /\ sg_ngroups \in 0..MaxGroups
    /\ sg_labels \in LabelArrays(sg_n, sg_ngroups)
    /\ sg_i = 0 /\ sg_group_size = 0 /\ sg_counts = <<>>
    /\ sg_result = None /\ sg_initialized = FALSE
    /\ sg_vslider = NoSlider /\ sg_islider = NoSlider
    /\ sg_calls = <<>> /\ sg_exc = "none" /\ sg_ret = NoReturn

\* get_result up to the try: counts zeroed, both sliders constructed.
SGEnter ==
    /\ sg_pc = "ready"
    /\ UNCHANGED sgOthers
    /\ sg_counts' = [g \in 0..(sg_ngroups - 1) |-> 0]
    /\ sg_group_size' = 0
    /\ sg_vslider' = SliderInit(ArrOf(sg_n), DummyArr)
    /\ IF SliderAsserts(sg_index_dtype_same)
       THEN /\ sg_islider' = SliderInit(IndexOf(sg_n), DummyIndex)
            /\ sg_pc' = IF sg_n = 0 THEN "finally" ELSE "loop"
            /\ UNCHANGED sg_exc
       ELSE /\ sg_pc' = "raised"
            /\ sg_exc' = "AssertionError"
            /\ UNCHANGED sg_islider
    /\ sg_i' = 0
    /\ UNCHANGED <<sg_index_dtype_same, sg_mapping, sg_discarded, sg_n,
                   sg_labels, sg_ngroups, sg_result, sg_initialized, sg_calls,
                   sg_ret>>

\* i == n - 1 or lab != labels[i + 1]: row i (0-based) is the last of its run.
EndOfRun(labels, i, n) ==
    IF i = n - 1 THEN TRUE ELSE labels[i + 1] # labels[i + 2]

\* Where the loop goes after iteration sg_i ended without an exception.
SGAfter == IF sg_i + 1 = sg_n THEN "finally" ELSE "loop"

\* The row is inside a run: only group_size grows.
SGInsideRun ==
    /\ sg_pc = "loop"
    /\ UNCHANGED sgOthers
    /\ ~EndOfRun(sg_labels, sg_i, sg_n)
    /\ sg_group_size' = sg_group_size + 1
    /\ sg_i' = sg_i + 1
    /\ sg_pc' = SGAfter
    /\ UNCHANGED <<sg_index_dtype_same, sg_mapping, sg_discarded, sg_n,
                   sg_labels, sg_ngroups, sg_counts, sg_result,
                   sg_initialized, sg_vslider, sg_islider, sg_calls, sg_exc,
                   sg_ret>>

\* The row ends a run labelled -1: both sliders skip the run.
SGSkipRun ==
    /\ sg_pc = "loop"
    /\ UNCHANGED sgOthers
    /\ EndOfRun(sg_labels, sg_i, sg_n)
    /\ sg_labels[sg_i + 1] = -1
    /\ sg_islider' = SliderAdvance(sg_islider, sg_group_size + 1)
    /\ sg_vslider' = SliderAdvance(sg_vslider, sg_group_size + 1)
    /\ sg_group_size' = 0
    /\ sg_i' = sg_i + 1
    /\ sg_pc' = SGAfter
    /\ UNCHANGED <<sg_index_dtype_same, sg_mapping, sg_discarded, sg_n,
                   sg_labels, sg_ngroups, sg_counts, sg_result,
                   sg_initialized, sg_calls, sg_exc, sg_ret>>

\* A slip: the run's length is stored before the row that closes the run is
\* counted.
SGStoreCountOffByOne(counts, lab, group_size) ==
    [counts EXCEPT ![lab] = group_size - 1]

\* counts[lab] = group_size.
SGStoreCount(counts, lab, group_size) == [counts EXCEPT ![lab] = group_size]

\* The row ends a run with a label >= 0: the window is set, the callback is
\* invoked and its result and the run's length are stored under the label.
SGApplyRun ==
    /\ sg_pc = "loop"
    /\ UNCHANGED sgOthers
    /\ EndOfRun(sg_labels, sg_i, sg_n)
    /\ sg_labels[sg_i + 1] # -1
    /\ LET lab == sg_labels[sg_i + 1]
           group_size == sg_group_size + 1
           isl == SliderSetLength(sg_islider, group_size)
           vsl == SliderSetLength(sg_vslider, group_size)
           seen == ClearMapping(sg_mapping)
       IN  \E res \in GroupCallbackResults(group_size), looks_up \in BOOLEAN :
             /\ sg_calls' = Append(sg_calls,
                                   [lab |-> lab, values |-> vsl.buf,
                                    index |-> isl.buf, res |-> res.kind,
                                    mapping |-> seen])
             /\ sg_discarded' = sg_mapping
             /\ sg_mapping' = IF looks_up THEN Mapping(isl.buf) ELSE seen
             /\ IF res.kind = "raise"
                THEN /\ sg_exc' = "callback"
                     /\ sg_pc' = "finally"
                     /\ sg_islider' = isl /\ sg_vslider' = vsl
                     /\ UNCHANGED <<sg_i, sg_group_size, sg_counts, sg_result,
                                    sg_initialized>>
                ELSE IF ~sg_initialized /\ DoesNotReduce(res, vsl.buf.shape)
                THEN /\ sg_exc' = "does_not_reduce"
                     /\ sg_pc' = "finally"
                     /\ sg_initialized' = TRUE
                     /\ sg_islider' = isl /\ sg_vslider' = vsl
                     /\ UNCHANGED <<sg_i, sg_group_size, sg_counts, sg_result>>
                ELSE /\ sg_initialized' = TRUE
                     /\ sg_result' =
                          Allocated(
                            [(IF sg_initialized THEN sg_result.items
                              ELSE [g \in 0..(sg_ngroups - 1) |-> "empty"])
                             EXCEPT ![lab] = res.kind])
                     /\ sg_counts' = SGStoreCount(sg_counts, lab, group_size)
                     /\ sg_islider' = SliderAdvance(isl, group_size)
                     /\ sg_vslider' = SliderAdvance(vsl, group_size)
                     /\ sg_group_size' = 0
                     /\ sg_i' = sg_i + 1
                     /\ sg_pc' = SGAfter
                     /\ UNCHANGED sg_exc
    /\ UNCHANGED <<sg_index_dtype_same, sg_n, sg_labels, sg_ngroups, sg_ret>>

\* The finally block and the code after it.
SGExit ==
    /\ sg_pc = "finally"
    /\ UNCHANGED sgOthers
    /\ sg_islider' = SliderReset(sg_islider)
    /\ sg_vslider' = SliderReset(sg_vslider)
    /\ IF sg_exc # "none"
       THEN sg_pc' = "raised" /\ UNCHANGED <<sg_exc, sg_ret>>
       ELSE IF sg_result = None
       THEN sg_pc' = "raised" /\ sg_exc' = "no_result" /\ UNCHANGED sg_ret
       ELSE /\ sg_pc' = "returned"
            /\ sg_ret' = [kind |-> "result", result |-> sg_result.items,
                          counts |-> sg_counts]
            /\ UNCHANGED sg_exc
    /\ UNCHANGED <<sg_index_dtype_same, sg_mapping, sg_discarded, sg_n,
                   sg_labels, sg_ngroups, sg_i, sg_group_size, sg_counts,
                   sg_result, sg_initialized, sg_calls>>

SGNext == SGEnter \/ SGInsideRun \/ SGSkipRun \/ SGApplyRun \/ SGExit

\* --------------------------------------------------------- SeriesBinGrouper
\* Bin edges: non-decreasing positions, the last one <= len(values).
BinEdgeArrays(n) ==
    { b \in UNION { [1..k -> 0..n] : k \in 0..MaxBins } :
        \A j \in 1..(Len(b) - 1) : b[j] <= b[j + 1] }

\* SeriesBinGrouper.__init__, "kludge for #1688".
BinNGroups(bins, n) ==
    IF Len(bins) > 0 /\ bins[Len(bins)] = n THEN Len(bins) ELSE Len(bins) + 1

\* counts[i] for i >= 1, as the loop of get_result sets it (bins is 0-based
\* in the code, 1-based here).
BinCount(bins, n, ngroups, i) ==
    IF i = ngroups - 1 THEN n - bins[i] ELSE bins[i + 1] - bins[i]

\* The counts array get_result fills before the sliders are built; bins is
\* not empty.
BinCounts(bins, n, ngroups) ==
    [i \in 0..(ngroups - 1) |->
        IF i = 0 THEN bins[1] ELSE BinCount(bins, n, ngroups, i)]

SBIdle ==
    /\ sb_pc = "idle" /\ sb_index_dtype_same = TRUE
    /\ sb_mapping = NoMapping /\ sb_discarded = NoMapping
    /\ sb_n = 0 /\ sb_bins = <<>> /\ sb_ngroups = 0
    /\ sb_i = 0 /\ sb_group_size = 0 /\ sb_counts = <<>>
    /\ sb_result = None /\ sb_initialized = FALSE
    /\ sb_vslider = NoSlider /\ sb_islider = NoSlider
    /\ sb_calls = <<>> /\ sb_exc = "none" /\ sb_ret = NoReturn

\* The state after SeriesBinGrouper.__init__.
SBInit ==
    /\ sb_pc = "ready"
    /\ sb_index_dtype_same \in BOOLEAN
    /\ sb_mapping = NoMapping /\ sb_discarded = NoMapping
    /\ sb_n \in 0..MaxLen
    /\ sb_bins \in BinEdgeArrays(sb_n)
    /\ sb_ngroups = BinNGroups(sb_bins, sb_n)
    /\ sb_i = 0 /\ sb_group_size = 0 /\ sb_counts = <<>>
    /\ sb_result = None /\ sb_initialized = FALSE
    /\ sb_vslider = NoSlider /\ sb_islider = NoSlider
    /\ sb_calls = <<>> /\ sb_exc = "none" /\ sb_ret = NoReturn

\* get_result up to the try: the counts are computed from the edges
\* (self.bins[0] raises IndexError on an empty edge array), then both sliders
\* are constructed.
SBEnter ==
    /\ sb_pc = "ready"
    /\ UNCHANGED sbOthers
    /\ IF sb_ngroups > 0 /\ Len(sb_bins) = 0
       THEN /\ sb_pc' = "raised"
            /\ sb_exc' = "IndexError"
            /\ sb_counts' = [g \in 0..(sb_ngroups - 1) |-> 0]
            /\ UNCHANGED <<sb_vslider, sb_islider>>
       ELSE /\ sb_counts' = BinCounts(sb_bins, sb_n, sb_ngroups)
            /\ sb_vslider' = SliderInit(ArrOf(sb_n), DummyArr)
            /\ IF SliderAsserts(sb_index_dtype_same)
               THEN /\ sb_islider' = SliderInit(IndexOf(sb_n), DummyIndex)
                    /\ sb_pc' = IF sb_ngroups = 0 THEN "finally" ELSE "loop"
                    /\ UNCHANGED sb_exc
               ELSE /\ sb_pc' = "raised"
                    /\ sb_exc' = "AssertionError"
                    /\ UNCHANGED sb_islider
    /\ sb_group_size' = 0
    /\ sb_i' = 0
    /\ UNCHANGED <<sb_index_dtype_same, sb_mapping, sb_discarded, sb_n,
                   sb_bins, sb_ngroups, sb_result, sb_initialized, sb_calls,
                   sb_ret>>

\* One iteration of the loop over the groups: the window is set to group i,
\* the callback is invoked and its result stored, the sliders advance.
SBApplyGroup ==
    /\ sb_pc = "loop"
    /\ UNCHANGED sbOthers
    /\ LET group_size == sb_counts[sb_i]
           isl == SliderSetLength(sb_islider, group_size)
           vsl == SliderSetLength(sb_vslider, group_size)
           seen == ClearMapping(sb_mapping)
       IN  /\ sb_group_size' = group_size
           /\ \E res \in GroupCallbackResults(group_size),
                 looks_up \in BOOLEAN :
                /\ sb_calls' = Append(sb_calls,
                                      [group |-> sb_i, values |-> vsl.buf,
                                       index |-> isl.buf, res |-> res.kind,
                                       mapping |-> seen])
                /\ sb_discarded' = sb_mapping
                /\ sb_mapping' = IF looks_up THEN Mapping(isl.buf) ELSE seen
                /\ IF res.kind = "raise"
                   THEN /\ sb_exc' = "callback"
                        /\ sb_pc' = "finally"
                        /\ sb_islider' = isl /\ sb_vslider' = vsl
                        /\ UNCHANGED <<sb_i, sb_result, sb_initialized>>
                   ELSE IF ~sb_initialized /\ DoesNotReduce(res, vsl.buf.shape)
                   THEN /\ sb_exc' = "does_not_reduce"
                        /\ sb_pc' = "finally"
                        /\ sb_initialized' = TRUE
                        /\ sb_islider' = isl /\ sb_vslider' = vsl
                        /\ UNCHANGED <<sb_i, sb_result>>
                   ELSE /\ sb_initialized' = TRUE
                        /\ sb_result' =
                             Allocated(
                               [(IF sb_initialized THEN sb_result.items
                                 ELSE [g \in 0..(sb_ngroups - 1) |-> "empty"])
                                EXCEPT ![sb_i] = res.kind])
                        /\ sb_islider' = SliderAdvance(isl, group_size)
                        /\ sb_vslider' = SliderAdvance(vsl, group_size)
                        /\ sb_i' = sb_i + 1
                        /\ sb_pc' = IF sb_i + 1 = sb_ngroups
                                    THEN "finally" ELSE "loop"
                        /\ UNCHANGED sb_exc
    /\ UNCHANGED <<sb_index_dtype_same, sb_n, sb_bins, sb_ngroups, sb_counts,
                   sb_ret>>

\* The finally block and the return.
SBExit ==
    /\ sb_pc = "finally"
    /\ UNCHANGED sbOthers
    /\ sb_islider' = SliderReset(sb_islider)
    /\ sb_vslider' = SliderReset(sb_vslider)
    /\ IF sb_exc # "none"
       THEN sb_pc' = "raised" /\ UNCHANGED sb_ret
       ELSE /\ sb_pc' = "returned"
            /\ sb_ret' = [kind |-> "result", result |-> sb_result.items,
                          counts |-> sb_counts]
    /\ UNCHANGED <<sb_index_dtype_same, sb_mapping, sb_discarded, sb_n,
                   sb_bins, sb_ngroups, sb_i, sb_group_size, sb_counts,
                   sb_result, sb_initialized, sb_calls, sb_exc>>

SBNext == SBEnter \/ SBApplyGroup \/ SBExit

\* --------------------------------------------------------------- BlockSlider
\* The index data of the frame and of frame[:0], a zero-length view of it.
FrameIndexData == NdArray(Ptr("index", 0), MaxRows, ItemSize)
DummyIndexData == NdArray(Ptr("index", 0), 0, ItemSize)

\* The values of block b of frame[:0]: no rows (shape[1] = 0), marked not
\* contiguous by __init__.
DummyBlock(b) ==
    [data |-> Ptr(b, 0), shape |-> 0, strides |-> ItemSize,
     contiguous |-> FALSE]

NoBlockSlider == [built |-> FALSE]

\* BlockSlider.__init__.
BlockSliderInit ==
    [ built      |-> TRUE,
      blocks     |-> [b \in 1..NBlocks |-> DummyBlock(b)],
      idx_slider |-> SliderInit(FrameIndexData, DummyIndexData),
      base_ptrs  |-> [b \in 1..NBlocks |-> DummyBlock(b).data] ]

\* BlockSlider.move.
BlockSliderMove(bs, start, end) ==
    [bs EXCEPT
       !.blocks = [b \in 1..NBlocks |->
                     [bs.blocks[b] EXCEPT
                        !.data = Ptr(bs.base_ptrs[b].seg,
                                     bs.base_ptrs[b].off
                                       + bs.blocks[b].strides * start),
                        !.shape = end - start]],
       !.idx_slider = SliderMove(bs.idx_slider, start, end)]

\* A slip: the row counts are reset, the data pointers are not.
BlockSliderResetShapeOnly(bs) ==
    [bs EXCEPT
       !.blocks = [b \in 1..NBlocks |-> [bs.blocks[b] EXCEPT !.shape = 0]]]

\* BlockSlider.reset.
BlockSliderReset(bs) ==
    [bs EXCEPT
       !.blocks = [b \in 1..NBlocks |->
                     [bs.blocks[b] EXCEPT !.data = bs.base_ptrs[b],
                                          !.shape = 0]]]

\* --------------------------------------------------------- apply_frame_axis0
\* What f(chunk) gives back: the window object itself, another object whose
\* index is the window's index object, an object with an index of its own, an
\* object without an index attribute (an int, say), or an exception.
PieceKinds == {"chunk", "shares_index", "own_index", "no_index"}
FrameCallbackResults == PieceKinds \cup {"raise"}

\* piece is chunk.
PieceIsChunk(kind) == kind = "chunk"
\* piece.index does not raise AttributeError.
HasIndex(kind) == kind \in {"chunk", "shares_index", "own_index"}
\* piece.index is chunk.index.
IndexIsChunkIndex(kind) == kind \in {"chunk", "shares_index"}

\* The row ranges starts[i], ends[i] of a frame of MaxRows rows.
Ranges == {r \in (0..MaxRows) \X (0..MaxRows) : r[1] <= r[2]}

\* A slip: there is no except clause around f(chunk), and what went wrong
\* is taken for the piece.
FASwallows(kind) == FALSE

\* f(chunk) raises an Exception.
FARaises(kind) == kind = "raise"

\* A slip: the complex-internals check left out.
FARejectsNothing(complex) == FALSE

\* frame.index._has_complex_internals: the call raises InvalidApply.
FARejects(complex) == complex

\* A slip: the piece is appended without the copy.
FAStoredAsIs(kind) == [kind |-> kind, copied |-> FALSE]

\* The piece appended to results: piece.copy(deep='all') when its index is
\* the window's index, the piece itself otherwise.
FAStored(kind) ==
    [kind |-> kind, copied |-> HasIndex(kind) /\ IndexIsChunkIndex(kind)]

\* A slip: the branches of the identity test swapped.
FAMutatedSwapped(mutated, kind) ==
    IF HasIndex(kind) /\ IndexIsChunkIndex(kind) THEN TRUE ELSE mutated

\* mutated after a piece: set when the piece has an index that is not the
\* window's index.
FAMutated(mutated, kind) ==
    IF HasIndex(kind) /\ ~IndexIsChunkIndex(kind) THEN TRUE ELSE mutated

\* A slip: the first piece is not compared with the window.
FANeverSlow(i, kind) == FALSE

\* require_slow_apply = i == 0 and piece is chunk.
FARequireSlowApply(i, kind) == i = 0 /\ PieceIsChunk(kind)

FAIdle ==
    /\ fa_mapping = NoMapping /\ fa_discarded = NoMapping
    /\ fa_pc = "idle" /\ fa_n = 0 /\ fa_complex = FALSE
    /\ fa_slider = NoBlockSlider /\ fa_i = 0 /\ fa_results = <<>>
    /\ fa_mutated = FALSE /\ fa_require_slow_apply = FALSE
    /\ fa_calls = <<>> /\ fa_exc = "none" /\ fa_ret = NoReturn

\* The state when apply_frame_axis0 is called.
FAInit ==
    /\ fa_mapping = NoMapping /\ fa_discarded = NoMapping
    /\ fa_pc = "ready"
    /\ fa_n \in 0..MaxRanges
    /\ fa_complex \in BOOLEAN
    /\ fa_slider = NoBlockSlider /\ fa_i = 0 /\ fa_results = <<>>
    /\ fa_mutated = FALSE /\ fa_require_slow_apply = FALSE
    /\ fa_calls = <<>> /\ fa_exc = "none" /\ fa_ret = NoReturn

\* The code before the try: the complex-internals check, then the
\* BlockSlider.
FAEnter ==
    /\ fa_pc = "ready"
    /\ UNCHANGED faOthers
    /\ IF FARejects(fa_complex)
       THEN /\ fa_pc' = "raised"
            /\ fa_exc' = "InvalidApply"
            /\ UNCHANGED <<fa_slider, fa_results, fa_mutated, fa_i>>
       ELSE /\ fa_results' = <<>>
            /\ fa_slider' = BlockSliderInit
            /\ fa_mutated' = FALSE
            /\ fa_i' = 0
            /\ fa_pc' = IF fa_n = 0 THEN "finally" ELSE "loop"
            /\ UNCHANGED fa_exc
    /\ UNCHANGED <<fa_mapping, fa_discarded, fa_n, fa_complex,
                   fa_require_slow_apply, fa_calls, fa_ret>>

\* One iteration: the slider moves to the range, f is called on the window,
\* the piece is copied or marks the result mutated, and is appended.
FAApplyRange ==
    /\ fa_pc = "loop"
    /\ UNCHANGED faOthers
    /\ \E r \in Ranges, kind \in FrameCallbackResults, looks_up \in BOOLEAN :
         LET moved == BlockSliderMove(fa_slider, r[1], r[2])
             seen == ClearMapping(fa_mapping)
         IN  /\ fa_slider' = moved
             /\ fa_calls' = Append(fa_calls,
                                   [start |-> r[1], end |-> r[2],
                                    index |-> moved.idx_slider.buf,
                                    res |-> kind,
                                    mapping |-> seen])
             /\ fa_discarded' = fa_mapping
             /\ fa_mapping' = IF looks_up THEN Mapping(moved.idx_slider.buf)
                              ELSE seen
             /\ IF FARaises(kind)
                THEN /\ fa_exc' = "InvalidApply"
                     /\ fa_pc' = "finally"
                     /\ UNCHANGED <<fa_i, fa_results, fa_mutated,
                                    fa_require_slow_apply>>
                ELSE /\ fa_require_slow_apply' = FARequireSlowApply(fa_i, kind)
                     /\ fa_mutated' = FAMutated(fa_mutated, kind)
                     /\ fa_results' = Append(fa_results, FAStored(kind))
                     /\ IF FARequireSlowApply(fa_i, kind)
                        THEN fa_pc' = "finally" /\ UNCHANGED fa_i
                        ELSE /\ fa_i' = fa_i + 1
                             /\ fa_pc' = IF fa_i + 1 = fa_n
                                         THEN "finally" ELSE "loop"
                     /\ UNCHANGED fa_exc
    /\ UNCHANGED <<fa_n, fa_complex, fa_ret>>

\* The finally block and the return.
FAExit ==
    /\ fa_pc = "finally"
    /\ UNCHANGED faOthers
    /\ fa_slider' = BlockSliderReset(fa_slider)
    /\ IF fa_exc # "none"
       THEN fa_pc' = "raised" /\ UNCHANGED fa_ret
       ELSE /\ fa_pc' = "returned"
            /\ fa_ret' = [kind |-> "result", results |-> fa_results,
                          mutated |-> fa_mutated]
    /\ UNCHANGED <<fa_mapping, fa_discarded, fa_n, fa_complex, fa_i,
                   fa_results, fa_mutated, fa_require_slow_apply, fa_calls,
                   fa_exc>>

FANext == FAEnter \/ FAApplyRange \/ FAExit

\* ------------------------------------------------------------------ Reducer
\* The values a matrix cell holds.
CellValues == 0..1

\* Position in memory (in elements) of cell (r, c) of an n x k array stored in
\* the given order.
CellIndex(order, n, k, r, c) == IF order = "C" THEN r * k + c ELSE r + c * n

\* flags.f_contiguous / flags.c_contiguous of a contiguous n x k array stored
\* in the given order: an array with at most one row or one column is both.
IsFContiguous(order, n, k) == order = "F" \/ n <= 1 \/ k <= 1
IsCContiguous(order, n, k) == order = "C" \/ n <= 1 \/ k <= 1

\* arr.copy(to): the memory of a copy of the array in order `to`; memory is a
\* function from element positions 0..n*k-1 to values.
CopyInOrder(mem, order, n, k, to) ==
    [p \in 0..(n * k - 1) |->
        IF to = "F" THEN mem[CellIndex(order, n, k, p % n, p \div n)]
        ELSE mem[CellIndex(order, n, k, p \div k, p % k)]]

\* A slip: the array is taken as it is, whatever its order.
ReducerArrNoCopy(mem, order, n, k, axis) == mem

\* Reducer.__init__: self.arr, copied to F order (axis 0) or C order (axis 1)
\* unless it already is contiguous that way.
ReducerArr(mem, order, n, k, axis) ==
    IF axis = 0
    THEN IF ~IsFContiguous(order, n, k)
         THEN CopyInOrder(mem, order, n, k, "F") ELSE mem
    ELSE IF ~IsCContiguous(order, n, k)
         THEN CopyInOrder(mem, order, n, k, "C") ELSE mem

ReducerNResults(n, k, axis) == IF axis = 0 THEN k ELSE n
ReducerChunksize(n, k, axis) == IF axis = 0 THEN n ELSE k
ReducerIncrement(n, k, axis) == ReducerChunksize(n, k, axis) * ItemSize

\* The elements the chunk array shows: chunksize elements of self.arr from
\* its data pointer on.
ChunkValues(arr, data, chunksize) ==
    [j \in 1..chunksize |-> arr[(data.off \div ItemSize) + j - 1]]

\* What f gives back for its argument: the sum of the chunk, the argument
\* itself (the chunk, or the cached series around it when dummy is
\* series-like), a list as long as the chunk, or an exception.
ReducerCallbackResults == {"sum", "input", "list", "raise"}

\* res as get_result stores it: a result with an ndarray as .values is
\* replaced by that array, so the series around the chunk becomes the chunk.
ReducerRes(raw, typ, values) ==
    CASE raw = "sum"   -> [kind |-> "scalar", value |-> SeqSum(values)]
      [] raw = "input" -> [kind |-> "ndarray", value |-> values]
      [] raw = "list"  -> [kind |-> "list", len |-> Len(values),
                           value |-> values]

RDIdle ==
    /\ rd_pc = "idle" /\ rd_shape = <<0, 0>> /\ rd_order = "C"
    /\ rd_input = <<>> /\ rd_axis = 0 /\ rd_typ = FALSE /\ rd_arr = <<>>
    /\ rd_nresults = 0 /\ rd_chunksize = 0 /\ rd_increment = 0
    /\ rd_chunk = Ptr("dummy", 0) /\ rd_dummy_buf = Ptr("dummy", 0)
    /\ rd_i = 0 /\ rd_result = None /\ rd_calls = <<>>
    /\ rd_exc = "none" /\ rd_ret = NoReturn

\* The state after Reducer.__init__, for every matrix of the bounds in either
\* order.
RDInit ==
    /\ rd_pc = "ready"
    /\ rd_shape \in (0..MaxR) \X (0..MaxC)
    /\ rd_order \in {"C", "F"}
    /\ rd_input \in [0..(rd_shape[1] * rd_shape[2] - 1) -> CellValues]
    /\ rd_axis \in {0, 1}
    /\ rd_typ \in BOOLEAN
    /\ rd_arr = ReducerArr(rd_input, rd_order, rd_shape[1], rd_shape[2],
                           rd_axis)
    /\ rd_nresults = ReducerNResults(rd_shape[1], rd_shape[2], rd_axis)
    /\ rd_chunksize = ReducerChunksize(rd_shape[1], rd_shape[2], rd_axis)
    /\ rd_increment = ReducerIncrement(rd_shape[1], rd_shape[2], rd_axis)
    /\ rd_chunk = Ptr("dummy", 0) /\ rd_dummy_buf = Ptr("dummy", 0)
    /\ rd_i = 0 /\ rd_result = None /\ rd_calls = <<>>
    /\ rd_exc = "none" /\ rd_ret = NoReturn

\* get_result up to the try: the dummy is pointed at the start of self.arr.
RDEnter ==
    /\ rd_pc = "ready"
    /\ UNCHANGED rdOthers
    /\ rd_dummy_buf' = rd_chunk
    /\ rd_chunk' = Ptr("arr", 0)
    /\ rd_i' = 0
    /\ rd_pc' = IF rd_nresults = 0 THEN "finally" ELSE "loop"
    /\ UNCHANGED <<rd_shape, rd_order, rd_input, rd_axis, rd_typ, rd_arr,
                   rd_nresults, rd_chunksize, rd_increment, rd_result,
                   rd_calls, rd_exc, rd_ret>>

\* One iteration: f is called on the chunk, the result of chunk 0 decides
\* whether f reduces, the result is stored and the chunk moves on.
RDApplyChunk ==
    /\ rd_pc = "loop"
    /\ UNCHANGED rdOthers
    /\ LET values == ChunkValues(rd_arr, rd_chunk, rd_chunksize)
       IN  \E raw \in ReducerCallbackResults :
             /\ rd_calls' = Append(rd_calls, [chunk |-> values, res |-> raw])
             /\ IF raw = "raise"
                THEN /\ rd_exc' = "callback"
                     /\ rd_pc' = "finally"
                     /\ UNCHANGED <<rd_i, rd_result, rd_chunk>>
                ELSE IF rd_i = 0
                        /\ DoesNotReduce(ReducerRes(raw, rd_typ, values),
                                         rd_chunksize)
                THEN /\ rd_exc' = "does_not_reduce"
                     /\ rd_pc' = "finally"
                     /\ UNCHANGED <<rd_i, rd_result, rd_chunk>>
                ELSE /\ rd_result' =
                          Allocated(
                            [(IF rd_i = 0
                              THEN [g \in 0..(rd_nresults - 1) |-> "empty"]
                              ELSE rd_result.items)
                             EXCEPT ![rd_i] =
                               ReducerRes(raw, rd_typ, values)])
                     /\ rd_chunk' = Ptr(rd_chunk.seg,
                                        rd_chunk.off + rd_increment)
                     /\ rd_i' = rd_i + 1
                     /\ rd_pc' = IF rd_i + 1 = rd_nresults
                                 THEN "finally" ELSE "loop"
                     /\ UNCHANGED rd_exc
    /\ UNCHANGED <<rd_shape, rd_order, rd_input, rd_axis, rd_typ, rd_arr,
                   rd_nresults, rd_chunksize, rd_increment, rd_dummy_buf,
                   rd_ret>>

\* The finally block and the return; with no chunk at all, result was never
\* assigned and reading result.dtype fails.
RDExit ==
    /\ rd_pc = "finally"
    /\ UNCHANGED rdOthers
    /\ rd_chunk' = rd_dummy_buf
    /\ IF rd_exc # "none"
       THEN rd_pc' = "raised" /\ UNCHANGED <<rd_exc, rd_ret>>
       ELSE IF rd_result = None
       THEN rd_pc' = "raised" /\ rd_exc' = "unbound_result" /\ UNCHANGED rd_ret
       ELSE /\ rd_pc' = "returned"
            /\ rd_ret' = [kind |-> "result", result |-> rd_result.items]
            /\ UNCHANGED rd_exc
    /\ UNCHANGED <<rd_shape, rd_order, rd_input, rd_axis, rd_typ, rd_arr,
                   rd_nresults, rd_chunksize, rd_increment, rd_dummy_buf,
                   rd_i, rd_result, rd_calls>>

RDNext == RDEnter \/ RDApplyChunk \/ RDExit

\* -------------------------------------------------------- array_to_datetime
\* Instants and offsets are counted in minutes, the unit of a UTC offset;
\* whether an instant fits datetime64[ns] is an attribute of the element
\* (oob), not a computation on its value.
NPY_NAT == -(2 ^ 30)

\* An element of values.  typ and sub say what it is:
\*   null      None or NaT (sub "NaT"), a float nan (sub "nan")
\*   datetime  datetime.datetime, naive or aware with offset off
\*   date      datetime.date
\*   dt64      np.datetime64 (sub "NaT": np.datetime64('NaT'))
\*   integer   an int or float, t its value
\*   string    sub "empty": '' or a NaT string; "iso": parsed by the ISO
\*             parser; "now": 'now' or 'today'; "dateutil": parsed only by
\*             the general parser; "bad": parsed by neither
\*   other     any other type
\*   dt64_item what item() of an np.datetime64 gives (in results only)
\* t is the wall-clock instant, aware/off the UTC offset in minutes, oob
\* whether converting raises OutOfBoundsDatetime.
Elem(typ, sub, t, aware, off, oob) ==
    [typ |-> typ, sub |-> sub, t |-> t, aware |-> aware, off |-> off,
     oob |-> oob]

PyNaT == Elem("null", "NaT", 0, FALSE, 0, FALSE)
PyNan == Elem("null", "nan", 0, FALSE, 0, FALSE)
\* The string 'NaT'.
StrNaT == Elem("string", "empty", 0, FALSE, 0, FALSE)

\* The instant every date-like element of the model shows on its wall clock,
\* and the offsets an aware one carries.
WallClock == 1000
Offsets == {60, 120}

StringElements ==
    { Elem("string", sub, WallClock, FALSE, 0, oob) :
        sub \in {"iso", "dateutil"}, oob \in BOOLEAN }
    \cup { Elem("string", sub, WallClock, TRUE, off, FALSE) :
             sub \in {"iso", "dateutil"}, off \in Offsets }
    \cup { Elem("string", "iso", WallClock, TRUE, 60, TRUE),
           Elem("string", "now", 0, FALSE, 0, FALSE),
           Elem("string", "bad", 0, FALSE, 0, FALSE),
           StrNaT }

OtherElements ==
    { PyNaT, PyNan,
      Elem("datetime", "", WallClock, FALSE, 0, FALSE),
      Elem("datetime", "", WallClock, FALSE, 0, TRUE),
      Elem("datetime", "", WallClock, TRUE, 60, FALSE),
      Elem("date", "", WallClock, FALSE, 0, FALSE),
      Elem("dt64", "", WallClock, FALSE, 0, FALSE),
      Elem("dt64", "NaT", 0, FALSE, 0, FALSE),
      Elem("integer", "", 7, FALSE, 0, FALSE),
      Elem("other", "", 0, FALSE, 0, FALSE) }

Elements == StringElements \cup OtherElements

\* The kinds the reconciliations after the loop tell apart.
CoreElements ==
    { PyNaT,
      Elem("datetime", "", WallClock, FALSE, 0, FALSE),
      Elem("datetime", "", WallClock, FALSE, 0, TRUE),
      Elem("integer", "", 7, FALSE, 0, FALSE),
      Elem("string", "iso", WallClock, FALSE, 0, FALSE),
      Elem("string", "iso", WallClock, TRUE, 60, FALSE),
      Elem("string", "iso", WallClock, TRUE, 120, FALSE),
      Elem("string", "bad", 0, FALSE, 0, FALSE) }

\* The arrays a call is given: short ones of any elements, longer ones of
\* core elements.
ValueArrays ==
    UNION {[1..k -> Elements] : k \in 0..MaxMixed}
    \cup UNION {[1..k -> CoreElements] : k \in (MaxMixed + 1)..MaxValues}

ErrorPolicies == {"raise", "ignore", "coerce"}

\* The instant in UTC of a wall-clock instant at an offset
\* (tz_convert_single(value, tz, UTC), convert_datetime_to_tsobject).
ToUTC(t, aware, off) == IF aware THEN t - off ELSE t

\* A member of out_tzoffset_vals: an offset in seconds, or the marker 'naive'.
OffsetSeconds(off) == [naive |-> FALSE, seconds |-> off * 60]
NaiveMarker == [naive |-> TRUE, seconds |-> 0]

\* What the body of the inner try does with one element: act "store" (the
\* element is done, iresult[i] = value), or the exception it raises, or
\* "return_values" (return values, tz_out); the seen_* flags it sets and what
\* it adds to out_tzoffset_vals, both set before anything is raised.
Step(act, value, flag, offset, tzvals) ==
    [act |-> act, value |-> value, flag |-> flag, offset |-> offset,
     tzvals |-> tzvals]

\* A slip: a string the general parser rejects is an error under every
\* policy.
ConvertOtherStringNeverCoerces(val, errors, require_iso8601) ==
    IF require_iso8601
    THEN CASE errors = "coerce" -> Step("store", NPY_NAT, "string", FALSE, {})
           [] errors = "raise"  -> Step("ValueError", 0, "string", FALSE, {})
           [] OTHER -> Step("return_values", 0, "string", FALSE, {})
    ELSE IF val.sub = "bad"
    THEN Step("TypeError", 0, "string", FALSE, {})
    ELSE Step(IF val.oob THEN "OutOfBoundsDatetime" ELSE "store",
              ToUTC(val.t, val.aware, val.off), "string", val.aware,
              {IF val.aware THEN OffsetSeconds(val.off) ELSE NaiveMarker})

\* A string that the ISO parser rejected and that is not 'now' or 'today'.
ConvertOtherString(val, errors, require_iso8601) ==
    IF require_iso8601
    THEN CASE errors = "coerce" -> Step("store", NPY_NAT, "string", FALSE, {})
           [] errors = "raise"  -> Step("ValueError", 0, "string", FALSE, {})
           [] OTHER -> Step("return_values", 0, "string", FALSE, {})
    ELSE IF val.sub = "bad"
    THEN IF errors = "coerce"
         THEN Step("store", NPY_NAT, "string", FALSE, {})
         ELSE Step("TypeError", 0, "string", FALSE, {})
    ELSE Step(IF val.oob THEN "OutOfBoundsDatetime" ELSE "store",
              ToUTC(val.t, val.aware, val.off), "string", val.aware,
              {IF val.aware THEN OffsetSeconds(val.off) ELSE NaiveMarker})

ConvertString(val, errors, require_iso8601) ==
    CASE val.sub = "empty" -> Step("store", NPY_NAT, "string", FALSE, {})
      [] val.sub = "iso" ->
           Step(IF val.oob THEN "OutOfBoundsDatetime" ELSE "store",
                ToUTC(val.t, val.aware, val.off), "string", val.aware,
                {IF val.aware THEN OffsetSeconds(val.off) ELSE NaiveMarker})
      [] val.sub = "now" -> Step("store", val.t, "string", FALSE, {})
      [] OTHER -> ConvertOtherString(val, errors, require_iso8601)

ConvertElement(val, errors, utc_convert, require_iso8601) ==
    CASE val.typ = "null" -> Step("store", NPY_NAT, "none", FALSE, {})
      [] val.typ = "datetime" ->
           IF val.aware
           THEN IF utc_convert
                THEN Step(IF val.oob THEN "OutOfBoundsDatetime" ELSE "store",
                          ToUTC(val.t, TRUE, val.off), "datetime", FALSE, {})
                ELSE Step("ValueError", 0, "datetime", FALSE, {})
           ELSE Step(IF val.oob THEN "OutOfBoundsDatetime" ELSE "store",
                     val.t, "datetime", FALSE, {})
      [] val.typ = "date" ->
           Step(IF val.oob THEN "OutOfBoundsDatetime" ELSE "store",
                val.t, "datetime", FALSE, {})
      [] val.typ = "dt64" ->
           Step(IF val.oob THEN "OutOfBoundsDatetime" ELSE "store",
                IF val.sub = "NaT" THEN NPY_NAT ELSE val.t,
                "datetime", FALSE, {})
      [] val.typ = "integer" ->
           Step("store", IF val.t = NPY_NAT THEN NPY_NAT ELSE val.t,
                "integer", FALSE, {})
      [] val.typ = "string" -> ConvertString(val, errors, require_iso8601)
      [] OTHER ->
           IF errors = "coerce"
           THEN Step("store", NPY_NAT, "none", FALSE, {})
           ELSE Step("TypeError", 0, "none", FALSE, {})

\* A returned value: the datetime64 array with tz_out, an object array, the
\* input array itself, or an exception.
Returned(kind, arr, tz) == [kind |-> kind, arr |-> arr, tz |-> tz]
NoTz == [fixed |-> FALSE, minutes |-> 0]
FixedOffset(minutes) == [fixed |-> TRUE, minutes |-> minutes]
Raised(exc) == [kind |-> "raise", exc |-> exc]

\* A slip: every element is handed back as it came.
IgnoreFallbackKeepsAll(val) == val

\* ignore_errors_out_of_bounds_fallback, one element.
IgnoreFallbackElement(val) ==
    CASE val.typ = "null" -> (IF val.sub = "nan" THEN PyNan ELSE PyNaT)
      [] val.typ = "dt64" ->
           (IF val.sub = "NaT" THEN PyNaT
            ELSE Elem("dt64_item", "", val.t, FALSE, 0, val.oob))
      [] OTHER -> val

\* ignore_errors_out_of_bounds_fallback.
IgnoreErrorsOutOfBoundsFallback(values) ==
    [k \in 1..Len(values) |-> IgnoreFallbackElement(values[k])]

\* A slip: every element is stored as it is.
ObjectElementStoresAll(val, errors, active) ==
    [act |-> "store", value |-> val]

\* array_to_datetime_object, one element: "store" with what oresult[i]
\* becomes, "raise" with the exception, or "return_values" (return values,
\* None).  active is the exception being handled when the fallback is called
\* ("none" after the loop): the bare raise of the last branch re-raises it.
ObjectElement(val, errors, active) ==
    CASE val.typ \in {"null", "datetime"} -> [act |-> "store", value |-> val]
      [] val.typ = "string" ->
           IF val.sub = "empty" THEN [act |-> "store", value |-> StrNaT]
           ELSE IF val.sub \in {"iso", "dateutil"} /\ ~val.oob
           THEN [act |-> "store",
                 value |-> Elem("datetime", "", val.t, val.aware, val.off,
                                FALSE)]
           ELSE CASE errors = "coerce" -> [act |-> "store", value |-> PyNaT]
                  [] errors = "raise" ->
                       [act |-> "raise",
                        value |-> IF val.oob THEN "OutOfBoundsDatetime"
                                  ELSE "ValueError"]
                  [] OTHER -> [act |-> "return_values", value |-> val]
      [] OTHER ->
           IF errors = "raise"
           THEN [act |-> "raise",
                 value |-> IF active = "none" THEN "RuntimeError" ELSE active]
           ELSE [act |-> "return_values", value |-> val]

\* array_to_datetime_object: the first element that does not store decides.
ArrayToDatetimeObject(values, errors, active) ==
    LET acts == [k \in 1..Len(values) |->
                    ObjectElement(values[k], errors, active)]
        stops == {k \in 1..Len(values) : acts[k].act # "store"}
    IN  IF stops = {}
        THEN Returned("object", [k \in 1..Len(values) |-> acts[k].value],
                      NoTz)
        ELSE LET k == CHOOSE j \in stops : \A l \in stops : j <= l
             IN  IF acts[k].act = "raise" THEN Raised(acts[k].value)
                 ELSE Returned("values", values, NoTz)

\* A slip: the naive marker is left out of the comparison.
IsSameOffsetsIgnoringNaive(tzvals) ==
    Cardinality({v \in tzvals : ~v.naive}) = 1

\* is_same_offsets = len(out_tzoffset_vals) == 1
IsSameOffsets(tzvals) == Cardinality(tzvals) = 1

\* A slip: the offsets are reconciled whether or not UTC was requested.
ReconcilesOffsetsAlways(seen_datetime_offset, utc_convert) ==
    seen_datetime_offset

\* seen_datetime_offset and not utc_convert
ReconcilesOffsets(seen_datetime_offset, utc_convert) ==
    seen_datetime_offset /\ ~utc_convert

ADIdle ==
    /\ ad_pc = "idle" /\ ad_values = <<>> /\ ad_errors = "raise"
    /\ ad_utc = FALSE /\ ad_require_iso8601 = FALSE /\ ad_i = 0
    /\ ad_iresult = <<>> /\ ad_seen_integer = FALSE
    /\ ad_seen_string = FALSE /\ ad_seen_datetime = FALSE
    /\ ad_seen_datetime_offset = FALSE /\ ad_out_tzoffset_vals = {}
    /\ ad_exit = "none" /\ ad_ret = NoReturn

\* The state when array_to_datetime enters its loop: result allocated, no
\* flag set.
ADInit ==
    /\ ad_pc = "loop"
    /\ ad_values \in ValueArrays
    /\ ad_errors \in ErrorPolicies
    /\ ad_utc \in BOOLEAN
    /\ ad_require_iso8601 \in BOOLEAN
    /\ ad_i = 0
    /\ ad_iresult = [k \in 1..Len(ad_values) |-> 0]
    /\ ad_seen_integer = FALSE /\ ad_seen_string = FALSE
    /\ ad_seen_datetime = FALSE /\ ad_seen_datetime_offset = FALSE
    /\ ad_out_tzoffset_vals = {}
    /\ ad_exit = "none" /\ ad_ret = NoReturn

\* One iteration of the loop with its except clauses: element i is converted
\* and stored, or the call ends the way the error policy says.
ADConvert ==
    /\ ad_pc = "loop"
    /\ ad_i < Len(ad_values)
    /\ UNCHANGED adOthers
    /\ LET val == ad_values[ad_i + 1]
           st == ConvertElement(val, ad_errors, ad_utc, ad_require_iso8601)
           stored == st.act = "store"
                     \/ (st.act = "OutOfBoundsDatetime"
                         /\ ad_errors = "coerce")
       IN  /\ ad_seen_integer' = (ad_seen_integer \/ st.flag = "integer")
           /\ ad_seen_string' = (ad_seen_string \/ st.flag = "string")
           /\ ad_seen_datetime' = (ad_seen_datetime \/ st.flag = "datetime")
           /\ ad_seen_datetime_offset' = (ad_seen_datetime_offset \/ st.offset)
           /\ ad_out_tzoffset_vals' = ad_out_tzoffset_vals \cup st.tzvals
           /\ ad_iresult' = [ad_iresult EXCEPT ![ad_i + 1] =
                               IF st.act = "store" THEN st.value
                               ELSE IF stored THEN NPY_NAT ELSE st.value]
           /\ IF stored
              THEN /\ ad_i' = ad_i + 1
                   /\ UNCHANGED <<ad_pc, ad_exit, ad_ret>>
              ELSE /\ ad_pc' = "done"
                   /\ ad_exit' = st.act
                   /\ UNCHANGED ad_i
                   /\ ad_ret' =
                        CASE st.act = "return_values" ->
                               Returned("values", ad_values, NoTz)
                          [] st.act = "ValueError" -> Raised("ValueError")
                          [] st.act = "TypeError" ->
                               ArrayToDatetimeObject(ad_values, ad_errors,
                                                     "TypeError")
                          [] st.act = "OutOfBoundsDatetime" ->
                               IF ad_errors = "raise"
                               THEN Raised("OutOfBoundsDatetime")
                               ELSE IF ad_require_iso8601
                                       /\ val.typ = "string"
                               THEN Returned("values", ad_values, NoTz)
                               ELSE Returned(
                                      "object",
                                      IgnoreErrorsOutOfBoundsFallback(
                                        ad_values),
                                      NoTz)
    /\ UNCHANGED <<ad_values, ad_errors, ad_utc, ad_require_iso8601>>

\* A slip: the integers are left as they were converted.
CoerceNothing(values, iresult) == iresult

\* result after the reconciliation of datetimes mixed with integers under
\* errors='coerce': the integers and floats become NaT.
CoerceIntegers(values, iresult) ==
    [k \in 1..Len(values) |->
        IF values[k].typ = "integer" \/ values[k] = PyNan
        THEN NPY_NAT ELSE iresult[k]]

\* The code after the loop: the two reconciliations and the return.
ADReconcile ==
    /\ ad_pc = "loop"
    /\ ad_i = Len(ad_values)
    /\ UNCHANGED adOthers
    /\ ad_pc' = "done"
    /\ ad_exit' = "completed"
    /\ LET mixed == ad_seen_datetime /\ ad_seen_integer
           result == IF mixed /\ ad_errors = "coerce"
                     THEN CoerceIntegers(ad_values, ad_iresult)
                     ELSE ad_iresult
       IN  /\ ad_iresult' = result
           /\ ad_ret' =
                IF mixed /\ ad_errors = "raise" THEN Raised("ValueError")
                ELSE IF mixed /\ ad_errors = "ignore"
                THEN ArrayToDatetimeObject(ad_values, ad_errors, "none")
                ELSE IF ReconcilesOffsets(ad_seen_datetime_offset, ad_utc)
                THEN IF ~IsSameOffsets(ad_out_tzoffset_vals)
                     THEN ArrayToDatetimeObject(ad_values, ad_errors, "none")
                     ELSE Returned(
                            "numeric", result,
                            FixedOffset(
                              (CHOOSE v \in ad_out_tzoffset_vals : TRUE)
                                .seconds \div 60))
                ELSE Returned("numeric", result, NoTz)
    /\ UNCHANGED <<ad_values, ad_errors, ad_utc, ad_require_iso8601, ad_i,
                   ad_seen_integer, ad_seen_string, ad_seen_datetime,
                   ad_seen_datetime_offset, ad_out_tzoffset_vals>>

ADNext == ADConvert \/ ADReconcile

\* ----------------------------------------------- format_array_from_datetime
\* The values here are nanoseconds, as in the code.
Thousand == 1000
NsPerSecond == Thousand * Thousand * Thousand

\* The instants the arrays are made of: NaT, whole seconds, and instants
\* with milliseconds, microseconds or nanoseconds, one before the epoch.
FormattedValues ==
    {NPY_NAT, 0, NsPerSecond, NsPerSecond + 500 * Thousand * Thousand,
     2 * Thousand, 1, -Thousand}

\* An optional argument: None, or a value.
NotGiven == [given |-> FALSE, text |-> ""]
Given(text) == [given |-> TRUE, text |-> text]

\* dt64_to_dtstruct: the second, and within it the microsecond and the
\* picoseconds below the microsecond.
DtStruct(val) ==
    [sec |-> val \div NsPerSecond,
     us |-> (val % NsPerSecond) \div Thousand,
     ps |-> (val % Thousand) * Thousand]

\* A rendered instant: the text up to the second (standing for the second
\* it shows), and the digits after the point, none when digits is 0.
Rendered(sec, digits, frac) ==
    [kind |-> "basic", sec |-> sec, digits |-> digits, frac |-> frac]

\* A slip: milliseconds are looked at before microseconds.
BasicFormatMsFirst(val, show_ns, show_us, show_ms) ==
    LET dts == DtStruct(val)
    IN  IF show_ns
        THEN Rendered(dts.sec, 9, dts.ps \div Thousand + Thousand * dts.us)
        ELSE IF show_ms THEN Rendered(dts.sec, 3, dts.us \div Thousand)
        ELSE IF show_us THEN Rendered(dts.sec, 6, dts.us)
        ELSE Rendered(dts.sec, 0, 0)

\* The branch elif basic_format of the loop.
BasicFormat(val, show_ns, show_us, show_ms) ==
    LET dts == DtStruct(val)
    IN  IF show_ns
        THEN Rendered(dts.sec, 9, dts.ps \div Thousand + Thousand * dts.us)
        ELSE IF show_us THEN Rendered(dts.sec, 6, dts.us)
        ELSE IF show_ms THEN Rendered(dts.sec, 3, dts.us \div Thousand)
        ELSE Rendered(dts.sec, 0, 0)

\* (consider_values % 1000).any()
AnyMod1000(seq) == \E k \in 1..Len(seq) : seq[k] % Thousand # 0

\* A slip: the values are left undivided.
FloorDivSkipped(seq) == seq

\* consider_values //= 1000
FloorDiv1000(seq) == [k \in 1..Len(seq) |-> seq[k] \div Thousand]

\* values[values != NPY_NAT]: a copy of the values that are not NaT.
NotNaT(v) == v # NPY_NAT
ConsiderValues(values) == SelectSeq(values, NotNaT)

\* result before the loop: np.empty.
EmptySlot == [kind |-> "empty"]

FMIdle ==
    /\ fm_pc = "idle" /\ fm_passed = <<>> /\ fm_values = <<>>
    /\ fm_tz = FALSE
    /\ fm_format = FALSE /\ fm_na_rep = NotGiven /\ fm_basic_format = FALSE
    /\ fm_consider_values = <<>> /\ fm_show_ns = FALSE /\ fm_show_us = FALSE
    /\ fm_show_ms = FALSE /\ fm_i = 0 /\ fm_result = <<>>

\* The state when format_array_from_datetime is entered; fm_tz and fm_format
\* say whether the argument is given.
FMInit ==
    /\ fm_pc = "scan"
    /\ fm_values \in UNION {[1..k -> FormattedValues] : k \in 0..MaxFormatted}
    /\ fm_passed = fm_values
    /\ fm_tz \in BOOLEAN
    /\ fm_format \in BOOLEAN
    /\ fm_na_rep \in {NotGiven, Given("-")}
    /\ fm_basic_format = FALSE
    /\ fm_consider_values = <<>>
    /\ fm_show_ns = FALSE /\ fm_show_us = FALSE /\ fm_show_ms = FALSE
    /\ fm_i = 0
    /\ fm_result = [k \in 1..Len(fm_values) |-> EmptySlot]

\* The code before the loop: the default of na_rep and the choice of the
\* precision.
FMScan ==
    /\ fm_pc = "scan"
    /\ UNCHANGED fmOthers
    /\ fm_pc' = "loop"
    /\ fm_na_rep' = IF fm_na_rep.given THEN fm_na_rep ELSE Given("NaT")
    /\ fm_basic_format' = (~fm_format /\ ~fm_tz)
    /\ IF ~fm_format /\ ~fm_tz
       THEN LET cv0 == ConsiderValues(fm_values)
                ns == AnyMod1000(cv0)
                cv1 == IF ns THEN cv0 ELSE FloorDiv1000(cv0)
                us == IF ns THEN FALSE ELSE AnyMod1000(cv1)
                \* if not show_ms: show_ms is still 0 here
                cv2 == IF ns THEN cv1 ELSE FloorDiv1000(cv1)
                ms == IF ns THEN FALSE ELSE AnyMod1000(cv2)
            IN  /\ fm_consider_values' = cv2
                /\ fm_show_ns' = ns
                /\ fm_show_us' = us
                /\ fm_show_ms' = ms
       ELSE UNCHANGED <<fm_consider_values, fm_show_ns, fm_show_us,
                        fm_show_ms>>
    /\ UNCHANGED <<fm_passed, fm_values, fm_tz, fm_format, fm_i, fm_result>>

\* One iteration of the loop.  Without the basic format the text is that of
\* Timestamp(val, tz): str(ts), or ts.strftime(format) unless it raises.
FMFormat ==
    /\ fm_pc = "loop"
    /\ fm_i < Len(fm_values)
    /\ UNCHANGED fmOthers
    /\ \E strftime_raises \in BOOLEAN :
         LET val == fm_values[fm_i + 1]
             res == IF val = NPY_NAT
                    THEN [kind |-> "na", text |-> fm_na_rep.text]
                    ELSE IF fm_basic_format
                    THEN BasicFormat(val, fm_show_ns, fm_show_us, fm_show_ms)
                    ELSE IF ~fm_format \/ strftime_raises
                    THEN [kind |-> "str", val |-> val, tz |-> fm_tz]
                    ELSE [kind |-> "strftime", val |-> val, tz |-> fm_tz]
         IN  fm_result' = [fm_result EXCEPT ![fm_i + 1] = res]
    /\ fm_i' = fm_i + 1
    /\ UNCHANGED <<fm_pc, fm_passed, fm_values, fm_tz, fm_format, fm_na_rep,
                   fm_basic_format, fm_consider_values, fm_show_ns,
                   fm_show_us, fm_show_ms>>

\* return result
FMReturn ==
    /\ fm_pc = "loop"
    /\ fm_i = Len(fm_values)
    /\ UNCHANGED fmOthers
    /\ fm_pc' = "returned"
    /\ UNCHANGED <<fm_passed, fm_values, fm_tz, fm_format, fm_na_rep,
                   fm_basic_format, fm_consider_values, fm_show_ns,
                   fm_show_us, fm_show_ms, fm_i, fm_result>>

FMNext == FMScan \/ FMFormat \/ FMReturn

\* -------------------------------------------------------- ints_to_pydatetime
\* The box modes, and a value of box that is none of them.
BoxModes == {"datetime", "timestamp", "date", "time"}
BoxValues == BoxModes \cup {"other"}

\* The strategies the code tells apart by tz: None, UTC, the local zone, a
\* fixed offset, a dateutil zone, a pytz zone.
TzStrategies == {"None", "utc", "local", "fixed", "dateutil", "pytz"}

IntValues == {NPY_NAT, 0, 10}

\* get_dst_info(tz): the transitions of a zone and the offset in force from
\* each; a fixed zone has the one offset.
Trans(tz) == IF tz = "fixed" THEN <<NPY_NAT + 1>> ELSE <<NPY_NAT + 1, 5>>
Deltas(tz) == IF tz = "fixed" THEN <<60>> ELSE <<60, 120>>

\* trans.searchsorted(value, side='right') - 1, as an index from 1.
SearchSortedRight(trans, value) ==
    Cardinality({j \in 1..Len(trans) : trans[j] <= value})

\* tz_convert_utc_to_tzlocal(value, tz): the local zone is 30 ahead.
TzConvertUtcToTzlocal(value) == value + 30

\* The NaT object.
NaTObject == [kind |-> "NaT"]

\* func_create(value, dts, tz, freq): the object of the box mode made from
\* the fields of the instant shown (dts) and carrying value and the zone;
\* for pytz the zone is the tzinfo of the transition in force.
Created(box, value, shown, tz, pos) ==
    [kind |-> box, value |-> value, shown |-> shown, tz |-> tz, pos |-> pos]

\* The instant whose fields are shown for value in the strategy of tz.
Shown(value, tz) ==
    CASE tz \in {"None", "utc"} -> value
      [] tz = "local" -> TzConvertUtcToTzlocal(value)
      [] tz = "fixed" -> value + Deltas(tz)[1]
      [] OTHER -> value + Deltas(tz)[SearchSortedRight(Trans(tz), value)]

\* A slip: the value is converted without being compared with NaT.
BoxedUnchecked(value, box, tz) == Created(box, value, value, tz, 0)

\* The body of each of the five loops.
Boxed(value, box, tz) ==
    IF value = NPY_NAT THEN NaTObject
    ELSE Created(box, value, Shown(value, tz), tz,
                 IF tz = "pytz" THEN SearchSortedRight(Trans(tz), value)
                 ELSE 0)

IPIdle ==
    /\ ip_pc = "idle" /\ ip_arr = <<>> /\ ip_tz = "None"
    /\ ip_box = "datetime" /\ ip_i = 0 /\ ip_result = <<>>
    /\ ip_exc = "none"

\* The state when ints_to_pydatetime is entered, result allocated.
IPInit ==
    /\ ip_pc = "ready"
    /\ ip_arr \in UNION {[1..k -> IntValues] : k \in 0..MaxInts}
    /\ ip_tz \in TzStrategies
    /\ ip_box \in BoxValues
    /\ ip_i = 0
    /\ ip_result = [k \in 1..Len(ip_arr) |-> EmptySlot]
    /\ ip_exc = "none"

\* The choice of func_create by box.
IPEnter ==
    /\ ip_pc = "ready"
    /\ UNCHANGED ipOthers
    /\ IF ip_box = "date" /\ ip_tz # "None"
       THEN ip_pc' = "raised" /\ ip_exc' = "AssertionError"
       ELSE IF ip_box \notin BoxModes
       THEN ip_pc' = "raised" /\ ip_exc' = "ValueError"
       ELSE ip_pc' = "loop" /\ UNCHANGED ip_exc
    /\ UNCHANGED <<ip_arr, ip_tz, ip_box, ip_i, ip_result>>

\* One iteration of the loop of the strategy of tz.
IPConvert ==
    /\ ip_pc = "loop"
    /\ ip_i < Len(ip_arr)
    /\ UNCHANGED ipOthers
    /\ ip_result' = [ip_result EXCEPT ![ip_i + 1] =
                       Boxed(ip_arr[ip_i + 1], ip_box, ip_tz)]
    /\ ip_i' = ip_i + 1
    /\ UNCHANGED <<ip_pc, ip_arr, ip_tz, ip_box, ip_exc>>

\* return result
IPReturn ==
    /\ ip_pc = "loop"
    /\ ip_i = Len(ip_arr)
    /\ UNCHANGED ipOthers
    /\ ip_pc' = "returned"
    /\ UNCHANGED <<ip_arr, ip_tz, ip_box, ip_i, ip_result, ip_exc>>

IPNext == IPEnter \/ IPConvert \/ IPReturn

\* ----------------------------------------------- array_with_unit_to_datetime
\* m = cast_from_unit(None, unit): the nanoseconds in one unit.
UnitMultiplier == Thousand

\* An element of values: a null (None, NaT or nan), a number v, a string
\* ('' or a NaT string: sub "empty"; the text of the number v: "numeric";
\* other text: "text"), or an object of another type.
UnitElem(typ, sub, v) == [typ |-> typ, sub |-> sub, v |-> v]

\* A number that fits in the unit, and one that does not.
SmallNumber == 5
LargeNumber == 2 ^ 21

UnitElements ==
    { UnitElem("null", "", 0),
      UnitElem("number", "", SmallNumber),
      UnitElem("number", "", LargeNumber),
      UnitElem("number", "", NPY_NAT),
      UnitElem("string", "empty", 0),
      UnitElem("string", "numeric", SmallNumber),
      UnitElem("string", "numeric", LargeNumber),
      UnitElem("string", "text", 0),
      UnitElem("other", "", 0) }

\* cast_from_unit(val, unit) raises OverflowError: the product does not fit
\* the integers of the instants, NPY_NAT being the least of them.
CastOverflows(v) ==
    \/ v * UnitMultiplier > -(NPY_NAT + 1)
    \/ v * UnitMultiplier < NPY_NAT

\* cast_from_unit(val, unit)
CastFromUnit(v) == v * UnitMultiplier

\* What converting one element in the first loop does: "store" the value in
\* iresult[i], or raise.
UnitStep(act, value) == [act |-> act, value |-> value]

\* The branch taken when an element cannot be converted.
UnitFailure(errors, exc) ==
    CASE errors = "raise" -> UnitStep(exc, 0)
      [] errors = "ignore" -> UnitStep("AssertionError", 0)
      [] OTHER -> UnitStep("store", NPY_NAT)

UnitConvert(val, errors) ==
    CASE val.typ = "null" -> UnitStep("store", NPY_NAT)
      [] val.typ = "number" ->
           IF val.v = NPY_NAT THEN UnitStep("store", NPY_NAT)
           ELSE IF CastOverflows(val.v)
           THEN UnitFailure(errors, "OutOfBoundsDatetime")
           ELSE UnitStep("store", CastFromUnit(val.v))
      [] val.typ = "string" ->
           IF val.sub = "empty" THEN UnitStep("store", NPY_NAT)
           ELSE IF val.sub = "text" THEN UnitFailure(errors, "ValueError")
           ELSE IF CastOverflows(val.v)
           THEN UnitFailure(errors, "OutOfBoundsDatetime")
           ELSE UnitStep("store", CastFromUnit(val.v))
      [] OTHER -> UnitFailure(errors, "ValueError")

\* A slot of np.empty(n, dtype=object) that nothing was stored in.
PyNone == [kind |-> "None"]

\* Timestamp(value)
TimestampOf(value) == [kind |-> "Timestamp", value |-> value]

\* What the second loop stores for an element; it has no branch for an
\* element that is neither null, number nor string, whose slot stays as
\* np.empty made it.
UnitObject(val) ==
    CASE val.typ = "null" -> NaTObject
      [] val.typ = "number" ->
           IF val.v = NPY_NAT THEN NaTObject
           ELSE IF CastOverflows(val.v) THEN val
           ELSE TimestampOf(CastFromUnit(val.v))
      [] val.typ = "string" ->
           IF val.sub = "empty" THEN NaTObject ELSE val
      [] OTHER -> PyNone

AUIdle ==
    /\ au_pc = "idle" /\ au_values = <<>> /\ au_kind = "O"
    /\ au_errors = "coerce" /\ au_i = 0 /\ au_iresult = <<>>
    /\ au_oresult = <<>> /\ au_exc = "none" /\ au_ret = NoReturn

\* The state when array_with_unit_to_datetime is entered with a unit other
\* than 'ns'; an array of dtype kind 'i' holds numbers only.
AUInit ==
    /\ au_pc = "ready"
    /\ au_values \in UNION {[1..k -> UnitElements] : k \in 0..MaxUnitValues}
    /\ au_kind \in {"i", "O"}
    /\ au_kind = "i" =>
         \A k \in 1..Len(au_values) : au_values[k].typ = "number"
    /\ au_errors \in ErrorPolicies
    /\ au_i = 0
    /\ au_iresult = <<>> /\ au_oresult = <<>>
    /\ au_exc = "none" /\ au_ret = NoReturn

\* The code before the loop: under errors='raise' an integer array is
\* converted at once, after a check of the bounds; otherwise result is
\* allocated.
AUEnter ==
    /\ au_pc = "ready"
    /\ UNCHANGED auOthers
    /\ IF au_errors = "raise" /\ au_kind = "i"
       THEN LET n == Len(au_values)
                masked == [k \in 1..n |->
                             IF au_values[k].v = NPY_NAT THEN 0
                             ELSE au_values[k].v]
            IN  IF \E k \in 1..n : CastOverflows(masked[k])
                THEN /\ au_pc' = "raised"
                     /\ au_exc' = "OutOfBoundsDatetime"
                     /\ UNCHANGED <<au_iresult, au_ret>>
                ELSE /\ au_pc' = "returned"
                     /\ au_iresult' =
                          [k \in 1..n |->
                             IF au_values[k].v = NPY_NAT THEN NPY_NAT
                             ELSE masked[k] * UnitMultiplier]
                     /\ au_ret' =
                          Returned("numeric",
                                   [k \in 1..n |->
                                      IF au_values[k].v = NPY_NAT THEN NPY_NAT
                                      ELSE masked[k] * UnitMultiplier],
                                   NoTz)
                     /\ UNCHANGED au_exc
       ELSE /\ au_pc' = "loop"
            /\ au_iresult' = [k \in 1..Len(au_values) |-> 0]
            /\ UNCHANGED <<au_exc, au_ret>>
    /\ UNCHANGED <<au_values, au_kind, au_errors, au_i, au_oresult>>

\* One iteration of the first loop; an AssertionError leaves it for the
\* second loop.
AUConvert ==
    /\ au_pc = "loop"
    /\ au_i < Len(au_values)
    /\ UNCHANGED auOthers
    /\ LET st == UnitConvert(au_values[au_i + 1], au_errors)
       IN  CASE st.act = "store" ->
                  /\ au_iresult' = [au_iresult EXCEPT ![au_i + 1] = st.value]
                  /\ au_i' = au_i + 1
                  /\ UNCHANGED <<au_pc, au_oresult, au_exc>>
             [] st.act = "AssertionError" ->
                  /\ au_pc' = "redo"
                  /\ au_i' = 0
                  /\ au_oresult' = [k \in 1..Len(au_values) |-> PyNone]
                  /\ UNCHANGED <<au_iresult, au_exc>>
             [] OTHER ->
                  /\ au_pc' = "raised"
                  /\ au_exc' = st.act
                  /\ UNCHANGED <<au_i, au_iresult, au_oresult>>
    /\ UNCHANGED <<au_values, au_kind, au_errors, au_ret>>

\* return result, tz
AUReturn ==
    /\ au_pc = "loop"
    /\ au_i = Len(au_values)
    /\ UNCHANGED auOthers
    /\ au_pc' = "returned"
    /\ au_ret' = Returned("numeric", au_iresult, NoTz)
    /\ UNCHANGED <<au_values, au_kind, au_errors, au_i, au_iresult,
                   au_oresult, au_exc>>

\* One iteration of the second loop.
AURedo ==
    /\ au_pc = "redo"
    /\ au_i < Len(au_values)
    /\ UNCHANGED auOthers
    /\ au_oresult' = [au_oresult EXCEPT ![au_i + 1] =
                        IF au_values[au_i + 1].typ = "other" THEN @
                        ELSE UnitObject(au_values[au_i + 1])]
    /\ au_i' = au_i + 1
    /\ UNCHANGED <<au_pc, au_values, au_kind, au_errors, au_iresult, au_exc,
                   au_ret>>

\* return oresult, tz
AUReturnObject ==
    /\ au_pc = "redo"
    /\ au_i = Len(au_values)
    /\ UNCHANGED auOthers
    /\ au_pc' = "returned"
    /\ au_ret' = Returned("object", au_oresult, NoTz)
    /\ UNCHANGED <<au_values, au_kind, au_errors, au_i, au_iresult,
                   au_oresult, au_exc>>

AUNext == AUEnter \/ AUConvert \/ AUReturn \/ AURedo \/ AUReturnObject

\* ------------------------------------------------------------------ claims
\* Rows of the label array carrying label g.
RowsLabelled(g) == CountEq(sg_labels, g)

\* Equal labels >= 0 are adjacent: every label >= 0 forms at most one run.
OneRunPerLabel ==
    \A a, b \in 1..sg_n :
        (a < b /\ sg_labels[a] = sg_labels[b] /\ sg_labels[a] # -1)
            => \A c \in a..b : sg_labels[c] = sg_labels[a]

\* C1, as claimed: for every label array, in any order, the returned counts
\* and the rows labelled -1 add up to the number of rows.
C1_AnyOrder ==
    sg_pc = "returned"
        => SumFn(sg_ret.counts, sg_ngroups) + RowsLabelled(-1) = sg_n

\* C1, amended: no entry of the returned counts holds more rows than carry
\* its label (so a row labelled -1 is counted nowhere), and when every label
\* >= 0 forms at most one run each entry is exactly the number of rows with
\* its label and the counts plus the rows labelled -1 add up to len(values).
C1_AdjacentRuns ==
    sg_pc = "returned"
        => /\ \A g \in 0..(sg_ngroups - 1) :
                sg_ret.counts[g] <= RowsLabelled(g)
           /\ OneRunPerLabel
                => /\ \A g \in 0..(sg_ngroups - 1) :
                        sg_ret.counts[g] = RowsLabelled(g)
                   /\ SumFn(sg_ret.counts, sg_ngroups) + RowsLabelled(-1)
                        = sg_n

\* A call returned for an array with two labelled runs around a skipped one.
C1_Witness ==
    /\ sg_pc = "returned"
    /\ OneRunPerLabel
    /\ RowsLabelled(-1) >= 1
    /\ RowsLabelled(0) >= 1
    /\ RowsLabelled(1) >= 2

\* C2, as claimed: for every valid edge array, the empty one included,
\* get_result gives counts that add up to len(values), the first of them
\* being the first edge; the call itself fails only through the callback.
C2_EveryEdgeArray ==
    /\ sb_pc = "raised" => sb_exc \in {"callback", "does_not_reduce"}
    /\ sb_pc = "returned"
        => /\ SumFn(sb_ret.counts, sb_ngroups) = sb_n
           /\ Len(sb_bins) > 0 => sb_ret.counts[0] = sb_bins[1]

\* The pieces the callback gave back so far, in order (fa_results holds one
\* entry per processed range).
AllPieces(P(_)) == \A k \in 1..Len(fa_results) : P(fa_results[k].kind)
SomePiece(P(_)) == \E k \in 1..Len(fa_results) : P(fa_results[k].kind)
OwnIndex(kind) == HasIndex(kind) /\ ~IndexIsChunkIndex(kind)

\* C3, as claimed: when every processed range gave a piece whose index is not
\* the window's index object, the returned mutated flag is False.
C3_NotMutated ==
    (fa_pc = "returned" /\ AllPieces(OwnIndex)) => fa_ret.mutated = FALSE

\* C3, amended: when at least one range was processed and every processed
\* range gave a piece whose index is not the window's index object, the
\* returned mutated flag is True; with no range processed it is False.
C3_Mutated ==
    fa_pc = "returned"
        => /\ (Len(fa_ret.results) > 0 /\ AllPieces(OwnIndex))
                => fa_ret.mutated = TRUE
           /\ Len(fa_ret.results) = 0 => fa_ret.mutated = FALSE

\* A call returned after two ranges, each giving a piece with its own index.
C3_Witness ==
    /\ fa_pc = "returned"
    /\ Len(fa_ret.results) = 2
    /\ AllPieces(OwnIndex)

\* C4: a piece whose index is the window's index is appended as a deep copy
\* and leaves mutated alone, any other piece is appended as it is, and
\* mutated is True exactly when some processed range gave a piece with an
\* index that is not the window's index.
C4_CopyOrMutated ==
    fa_pc \in {"loop", "finally", "returned"}
        => /\ \A k \in 1..Len(fa_results) :
                fa_results[k].copied
                    <=> (HasIndex(fa_results[k].kind)
                         /\ IndexIsChunkIndex(fa_results[k].kind))
           /\ fa_mutated <=> SomePiece(OwnIndex)
           /\ fa_pc = "returned"
                => /\ fa_ret.results = fa_results
                   /\ fa_ret.mutated = fa_mutated

\* A call returned a copied piece next to a piece without an index, and
\* mutated is False.
C4_Witness ==
    /\ fa_pc = "returned"
    /\ Len(fa_ret.results) = 2
    /\ fa_ret.results[1].kind = "no_index"
    /\ fa_ret.results[2].kind = "shares_index"
    /\ fa_ret.results[2].copied
    /\ ~fa_ret.mutated

\* The first range gave back the window object itself.
FirstPieceIsChunk ==
    Len(fa_results) > 0 /\ PieceIsChunk(fa_results[1].kind)

C6_RejectedFirst ==
    fa_complex
        => /\ fa_pc \in {"ready", "raised"}
           /\ fa_pc = "raised" => fa_exc = "InvalidApply"
           /\ ~fa_slider.built
           /\ fa_calls = <<>>
           /\ fa_results = <<>>

\* The call failed on a frame whose index has complex internals.
C6_Witness == fa_pc = "raised" /\ fa_complex /\ fa_n > 0

\* Cell (r, c) of the matrix handed to Reducer, read from the input memory.
Cell(r, c) == rd_input[CellIndex(rd_order, rd_shape[1], rd_shape[2], r, c)]
RECURSIVE ColumnSumTo(_, _)
ColumnSumTo(c, r) == IF r < 0 THEN 0 ELSE Cell(r, c) + ColumnSumTo(c, r - 1)
ColumnSum(c) == ColumnSumTo(c, rd_shape[1] - 1)

\* The call ended and f gave the sum of its chunk every time it was called.
SummedThroughout ==
    /\ rd_pc \in {"returned", "raised"}
    /\ \A k \in 1..Len(rd_calls) : rd_calls[k].res = "sum"

\* The result holds the column sums and chunk j was column j.
IsColumnSums ==
    /\ rd_pc = "returned"
    /\ DOMAIN rd_ret.result = 0..(rd_shape[2] - 1)
    /\ Len(rd_calls) = rd_shape[2]
    /\ \A j \in 0..(rd_shape[2] - 1) :
         /\ rd_ret.result[j].value = ColumnSum(j)
         /\ rd_calls[j + 1].chunk = [r \in 1..rd_shape[1] |-> Cell(r - 1, j)]

\* C7, as claimed: with axis = 0 and a summing callback, an R x C matrix in
\* either order gives the C column sums, chunk j being column j.
C7_AnyShape == (rd_axis = 0 /\ SummedThroughout) => IsColumnSums

\* C7, amended: the same for C >= 1; with C = 0 no chunk is processed and the
\* call fails because result was never assigned.
C7_ColumnSums ==
    (rd_axis = 0 /\ SummedThroughout)
        => IF rd_shape[2] >= 1 THEN IsColumnSums
           ELSE rd_pc = "raised" /\ rd_exc = "unbound_result"
                /\ rd_calls = <<>>

\* A 2 x 2 matrix in C order whose column sums differ from its row sums was
\* reduced along axis 0.
C7_Witness ==
    /\ rd_axis = 0 /\ SummedThroughout /\ rd_pc = "returned"
    /\ rd_shape = <<2, 2>> /\ rd_order = "C"
    /\ Cell(0, 0) = 1 /\ Cell(0, 1) = 1 /\ Cell(1, 0) = 0 /\ Cell(1, 1) = 0

\* C8: when f gives back its input for chunk 0 the call fails with 'Function
\* does not reduce': no result was stored, no further chunk was processed and
\* once the error has propagated the dummy has its data pointer back.
C8_DoesNotReduce ==
    (Len(rd_calls) >= 1 /\ rd_calls[1].res = "input")
        => /\ rd_pc \in {"finally", "raised"}
           /\ rd_exc = "does_not_reduce"
           /\ rd_result = None
           /\ Len(rd_calls) = 1
           /\ rd_pc = "raised"
                => rd_chunk = rd_dummy_buf /\ rd_chunk = Ptr("dummy", 0)

\* The call failed on the first of two chunks, f having returned the series
\* it was given.
C8_Witness ==
    /\ rd_pc = "raised"
    /\ rd_exc = "does_not_reduce"
    /\ rd_typ
    /\ rd_nresults = 2
    /\ rd_calls[1].res = "input"

\* ---- array_to_datetime: offsets of strings

\* The call ran its loop to the end and went through the code after it.
ADCompleted == ad_pc = "done" /\ ad_exit = "completed"

AllStrings == \A k \in 1..Len(ad_values) : ad_values[k].typ = "string"

\* The strings a completed pass has read an instant from: the ISO strings,
\* and the others the general parser accepts unless ISO 8601 is required.
Parsed(val) ==
    /\ val.typ = "string"
    /\ val.sub = "iso" \/ (val.sub = "dateutil" /\ ~ad_require_iso8601)

\* The offsets, in minutes, of the parsed strings, and whether one is naive.
OffsetsCarried ==
    {ad_values[k].off : k \in {j \in 1..Len(ad_values) :
                                 Parsed(ad_values[j]) /\ ad_values[j].aware}}
NaiveParsed ==
    \E k \in 1..Len(ad_values) : Parsed(ad_values[k]) /\ ~ad_values[k].aware

\* The numeric array holds, for every parsed string within bounds, its
\* instant in UTC: the wall clock less the offset.
UTCInstants(arr) ==
    /\ Len(arr) = Len(ad_values)
    /\ \A k \in 1..Len(ad_values) :
         Parsed(ad_values[k]) /\ ~ad_values[k].oob
           => arr[k] = ad_values[k].t
                         - (IF ad_values[k].aware THEN ad_values[k].off ELSE 0)

\* The call returned what array_to_datetime_object makes of the input, which
\* is never the numeric array and carries no offset.
ReturnedObjectFallback ==
    /\ ad_ret = ArrayToDatetimeObject(ad_values, ad_errors, "none")
    /\ ad_ret.kind \in {"object", "values", "raise"}
    /\ ad_ret.kind # "raise" => ad_ret.tz = NoTz

\* C9: without utc, on an array of strings of which one at least carries an
\* offset, a completed pass returns the numeric array with the one fixed
\* offset when the parsed strings all carry the same offset and none is
\* naive, and the result of the object fallback, with offset None and never
\* a numeric array, when they carry two offsets or one is naive.
C9_OffsetsReconciled ==
    (ADCompleted /\ AllStrings /\ ~ad_utc /\ OffsetsCarried # {}) =>
        IF Cardinality(OffsetsCarried) = 1 /\ ~NaiveParsed
        THEN /\ ad_ret.kind = "numeric"
             /\ \A off \in OffsetsCarried : ad_ret.tz = FixedOffset(off)
             /\ UTCInstants(ad_ret.arr)
        ELSE ReturnedObjectFallback

\* Two strings with the offset +01:00 came back as the numeric array at
\* that fixed offset.
C9_Witness ==
    /\ ADCompleted /\ AllStrings /\ ~ad_utc
    /\ Len(ad_values) = 2
    /\ OffsetsCarried = {60} /\ ~NaiveParsed
    /\ \A k \in 1..2 : Parsed(ad_values[k])
    /\ ad_ret.kind = "numeric" /\ ad_ret.tz = FixedOffset(60)

\* The parsed strings carry two different offsets.
DifferingOffsets == Cardinality(OffsetsCarried) >= 2

\* C10 as stated: strings with differing offsets give the object fallback
\* whether utc is set or not.
C10_RegardlessOfUtc ==
    (ADCompleted /\ AllStrings /\ DifferingOffsets) => ReturnedObjectFallback

\* C10: strings with differing offsets give the object fallback when utc is
\* not requested; when it is, the call returns the numeric array of the
\* instants in UTC, with offset None.
C10_UnlessUtc ==
    (ADCompleted /\ AllStrings /\ DifferingOffsets) =>
        IF ad_utc
        THEN /\ ad_ret.kind = "numeric"
             /\ ad_ret.tz = NoTz
             /\ UTCInstants(ad_ret.arr)
        ELSE ReturnedObjectFallback

\* With utc requested, strings at +01:00 and +02:00 came back as the
\* numeric array of two different instants.
C10_Witness ==
    /\ ADCompleted /\ AllStrings /\ ad_utc
    /\ OffsetsCarried = {60, 120}
    /\ ad_ret.kind = "numeric" /\ ad_ret.tz = NoTz
    /\ ad_ret.arr = <<WallClock - 60, WallClock - 120>>

\* ---- array_to_datetime: datetimes mixed with integers

\* A datetime.datetime, datetime.date or np.datetime64 element, and an
\* integer or float element that is not nan.
IsNative(val) == val.typ \in {"datetime", "date", "dt64"}
IsNumber(val) == val.typ = "integer"
SeenNative == \E k \in 1..Len(ad_values) : IsNative(ad_values[k])
SeenNumber == \E k \in 1..Len(ad_values) : IsNumber(ad_values[k])

\* The instant a native element within bounds converts to.
NativeInstant(val) ==
    IF val.typ = "dt64" /\ val.sub = "NaT" THEN NPY_NAT
    ELSE val.t - (IF val.aware THEN val.off ELSE 0)

SeenStringElement == \E k \in 1..Len(ad_values) : ad_values[k].typ = "string"

\* A string no parser takes: the ISO parser and the general parser reject it
\* and it is neither 'now' nor 'today'.
Unparseable(val) == val.typ = "string" /\ val.sub = "bad"

\* The numeric array has NaT where a string is unparseable and the value of
\* every integer where an integer is.
IntegersKept(arr) ==
    /\ Len(arr) = Len(ad_values)
    /\ \A k \in 1..Len(ad_values) :
         /\ Unparseable(ad_values[k]) => arr[k] = NPY_NAT
         /\ IsNumber(ad_values[k]) /\ ad_values[k].t # NPY_NAT
              => arr[k] = ad_values[k].t

\* C12 as stated: under errors='coerce', integers and strings without a
\* native datetime always come back as the numeric array with offset None.
C12_OffsetNone ==
    (ad_pc = "done" /\ ad_errors = "coerce" /\ SeenNumber
       /\ SeenStringElement /\ ~SeenNative) =>
        /\ ad_ret.kind = "numeric"
        /\ ad_ret.tz = NoTz
        /\ IntegersKept(ad_ret.arr)

\* C12: under errors='coerce', integers and strings without a native
\* datetime come back as the numeric array, NaT at the unparseable strings
\* and every integer kept, with offset None when utc is requested or no
\* parsed string carries an offset; otherwise the offsets are reconciled:
\* the same array with the one shared offset, or the object fallback.
C12_OffsetOfStrings ==
    (ad_pc = "done" /\ ad_errors = "coerce" /\ SeenNumber
       /\ SeenStringElement /\ ~SeenNative) =>
        /\ ADCompleted
        /\ IntegersKept(ad_iresult)
        /\ IF ad_utc \/ OffsetsCarried = {}
           THEN ad_ret = Returned("numeric", ad_iresult, NoTz)
           ELSE IF Cardinality(OffsetsCarried) = 1 /\ ~NaiveParsed
           THEN \A off \in OffsetsCarried :
                  ad_ret = Returned("numeric", ad_iresult, FixedOffset(off))
           ELSE ReturnedObjectFallback

\* An integer and an unparseable string came back as the integer and NaT,
\* with offset None.
C12_Witness ==
    /\ ad_pc = "done" /\ ad_errors = "coerce"
    /\ Len(ad_values) = 2
    /\ IsNumber(ad_values[1]) /\ Unparseable(ad_values[2])
    /\ ad_ret = Returned("numeric", <<ad_values[1].t, NPY_NAT>>, NoTz)

\* ---- array_to_datetime: out of bounds

\* Converting the element raises OutOfBoundsDatetime: it is out of bounds
\* and is a native element the loop converts or a string it parses.
RaisesOutOfBounds(val) ==
    /\ val.oob
    /\ \/ IsNative(val) /\ (val.aware => ad_utc)
       \/ Parsed(val)

\* The call stopped at an element that raised OutOfBoundsDatetime.
StoppedOutOfBounds ==
    /\ ad_pc = "done"
    /\ ad_i < Len(ad_values)
    /\ RaisesOutOfBounds(ad_values[ad_i + 1])

\* What the object array of errors='ignore' holds for an element: NaT or nan
\* for a null, the unboxed value for a datetime64, the element otherwise.
KeptAsObject(val) ==
    IF val.typ = "null" THEN val
    ELSE IF val.typ = "dt64"
    THEN (IF val.sub = "NaT" THEN PyNaT ELSE [val EXCEPT !.typ = "dt64_item"])
    ELSE val

\* C13: an element out of bounds makes the call raise OutOfBoundsDatetime
\* under errors='raise'; under errors='coerce' its position becomes NaT, the
\* pass goes on and the elements within bounds keep their instants; under
\* errors='ignore' the call returns the input itself when require_iso8601 is
\* set and the element is a string, and otherwise an object array of the
\* same length holding the elements, nulls as NaT or nan and datetime64
\* unboxed, never the numeric array.
C13_OutOfBounds ==
    /\ StoppedOutOfBounds /\ ad_errors = "raise"
         => ad_ret = Raised("OutOfBoundsDatetime")
    /\ StoppedOutOfBounds /\ ad_errors = "ignore"
         => IF ad_require_iso8601 /\ ad_values[ad_i + 1].typ = "string"
            THEN ad_ret = Returned("values", ad_values, NoTz)
            ELSE /\ ad_ret.kind = "object"
                 /\ ad_ret.tz = NoTz
                 /\ Len(ad_ret.arr) = Len(ad_values)
                 /\ \A k \in 1..Len(ad_values) :
                      ad_ret.arr[k] = KeptAsObject(ad_values[k])
    /\ ad_errors = "coerce" /\ ad_pc \in {"loop", "done"}
         => /\ ~StoppedOutOfBounds
            /\ \A k \in 1..ad_i :
                 /\ RaisesOutOfBounds(ad_values[k])
                      => ad_iresult[k] = NPY_NAT
                 /\ ~ad_values[k].oob /\ IsNative(ad_values[k])
                      => ad_iresult[k] = NativeInstant(ad_values[k])

\* Under errors='ignore' a datetime64 followed by a datetime out of bounds
\* came back as the object array of the unboxed datetime64 and the datetime.
C13_Witness ==
    /\ StoppedOutOfBounds /\ ad_errors = "ignore"
    /\ Len(ad_values) = 2
    /\ ad_values[1].typ = "dt64" /\ ad_values[1].sub # "NaT"
    /\ ad_values[2].typ = "datetime"
    /\ ad_ret.kind = "object"
    /\ ad_ret.arr = <<KeptAsObject(ad_values[1]), ad_values[2]>>

\* ---- format_array_from_datetime: the precision shown

RECURSIVE Pow10(_)
Pow10(e) == IF e = 0 THEN 1 ELSE 10 * Pow10(e - 1)

\* Every value that is not NaT is a whole multiple of 10^(9-d) nanoseconds.
LosesNothing(d) ==
    \A k \in 1..Len(fm_passed) :
        fm_passed[k] # NPY_NAT => fm_passed[k] % Pow10(9 - d) = 0

\* The coarsest of the four precisions that loses nothing.
LeastDigits == CHOOSE d \in {0, 3, 6, 9} :
                 /\ LosesNothing(d)
                 /\ \A e \in {0, 3, 6, 9} : LosesNothing(e) => d <= e

\* The call was made with neither format nor tz and has returned.
FMBasicReturned == fm_pc = "returned" /\ ~fm_format /\ ~fm_tz

\* C14: with neither format nor tz, every value that is not NaT is shown
\* with the least number of digits, of 0, 3, 6 and 9, at which no value of
\* the array loses anything, the digits being those of the value; a NaT is
\* shown as na_rep, the array is as long as the input, and the input holds
\* what it held.
C14_LeastPrecision ==
    FMBasicReturned =>
        /\ fm_values = fm_passed
        /\ Len(fm_result) = Len(fm_passed)
        /\ \A k \in 1..Len(fm_passed) :
             IF fm_passed[k] = NPY_NAT
             THEN fm_result[k] = [kind |-> "na", text |-> fm_na_rep.text]
             ELSE /\ fm_result[k].kind = "basic"
                  /\ fm_result[k].digits = LeastDigits
                  /\ fm_result[k].sec * NsPerSecond
                       + fm_result[k].frac * Pow10(9 - LeastDigits)
                     = fm_passed[k]

\* A whole second beside a second and a half: both are shown with three
\* digits.
C14_Witness ==
    /\ FMBasicReturned
    /\ Len(fm_values) = 2
    /\ fm_values[1] = NsPerSecond
    /\ fm_values[2] = NsPerSecond + 500 * Thousand * Thousand
    /\ fm_result[1] = Rendered(1, 3, 0)
    /\ fm_result[2] = Rendered(1, 3, 500)

\* ---- ints_to_pydatetime: NaT and the box modes

\* C15: for each of the four box modes, with tz None and in every strategy
\* of tz the mode accepts, the call returns an array as long as the input
\* with the NaT object wherever the input holds NaT; a box that is none of
\* the four fails with ValueError before any element is converted.
C15_NaTKept ==
    /\ ip_pc = "returned" =>
         /\ ip_box \in BoxModes
         /\ Len(ip_result) = Len(ip_arr)
         /\ \A k \in 1..Len(ip_arr) :
              ip_arr[k] = NPY_NAT => ip_result[k] = NaTObject
    /\ ip_box \in BoxModes /\ (ip_box = "date" => ip_tz = "None")
         => ip_pc \in {"ready", "loop", "returned"}
    /\ ip_box \notin BoxModes /\ ip_pc # "idle" =>
         /\ ip_pc \in {"ready", "raised"}
         /\ ip_pc = "raised" => ip_exc = "ValueError"
         /\ \A k \in 1..Len(ip_arr) : ip_result[k] = EmptySlot

\* With a pytz zone and box 'time', an array with NaT between two instants
\* came back with the NaT object between two times.
C15_Witness ==
    /\ ip_pc = "returned" /\ ip_tz = "pytz" /\ ip_box = "time"
    /\ Len(ip_arr) = 3
    /\ ip_arr[1] # NPY_NAT /\ ip_arr[2] = NPY_NAT /\ ip_arr[3] # NPY_NAT
    /\ ip_result[1].kind = "time" /\ ip_result[2] = NaTObject
    /\ ip_result[3].kind = "time"

\* ---- apply_frame_axis0: what the call leaves behind

\* The call is over and had built its BlockSlider.
FAExited == fa_pc \in {"returned", "raised"} /\ fa_slider.built

\* C16: once the BlockSlider is built, on every exit (return, break after
\* the first piece, InvalidApply after the callback failed) every block of
\* the prototype frame has its data pointer at its recorded base pointer,
\* where it was at construction, and no rows.
C16_BlocksRestored ==
    FAExited =>
        \A b \in 1..NBlocks :
            /\ fa_slider.blocks[b].data = fa_slider.base_ptrs[b]
            /\ fa_slider.blocks[b].data = DummyBlock(b).data
            /\ fa_slider.blocks[b].shape = 0

\* The callback failed on a window that did not start at row 0, and the
\* call raised with the blocks back at their base pointers.
C16_Witness ==
    /\ FAExited /\ fa_pc = "raised"
    /\ Len(fa_calls) >= 1
    /\ fa_calls[Len(fa_calls)].start > 0
    /\ fa_calls[Len(fa_calls)].end > fa_calls[Len(fa_calls)].start
    /\ \A b \in 1..NBlocks : fa_slider.blocks[b] = DummyBlock(b)

\* C17 as stated: on exit the index buffer of the prototype has the data
\* pointer, length and stride it had before the Slider over it was built.
C17_IndexRestored ==
    FAExited =>
        /\ fa_slider.idx_slider.buf = DummyIndexData
        /\ fa_slider.idx_slider.buf.data = fa_slider.idx_slider.orig_data
        /\ fa_slider.idx_slider.buf.shape = fa_slider.idx_slider.orig_len
        /\ fa_slider.idx_slider.buf.strides = fa_slider.idx_slider.orig_stride

\* ---- every engine: a callback that raises

\* The log of an engine's calls of the callback shows one that raised.
SomeCallRaised(calls) == \E k \in 1..Len(calls) : calls[k].res = "raise"

\* The call that raised is the last the engine made.
LastCallRaised(calls) ==
    \A k \in 1..Len(calls) : calls[k].res = "raise" => k = Len(calls)

\* C18: once the callback has raised, no engine calls it again or returns a
\* result: the three get_result end with the exception of the callback,
\* apply_frame_axis0 with InvalidApply.
C18_NeverSwallowed ==
    /\ SomeCallRaised(sg_calls) =>
         /\ LastCallRaised(sg_calls)
         /\ sg_pc \in {"finally", "raised"}
         /\ sg_exc = "callback" /\ sg_ret = NoReturn
    /\ SomeCallRaised(sb_calls) =>
         /\ LastCallRaised(sb_calls)
         /\ sb_pc \in {"finally", "raised"}
         /\ sb_exc = "callback" /\ sb_ret = NoReturn
    /\ SomeCallRaised(rd_calls) =>
         /\ LastCallRaised(rd_calls)
         /\ rd_pc \in {"finally", "raised"}
         /\ rd_exc = "callback" /\ rd_ret = NoReturn
    /\ SomeCallRaised(fa_calls) =>
         /\ LastCallRaised(fa_calls)
         /\ fa_pc \in {"finally", "raised"}
         /\ fa_exc = "InvalidApply" /\ fa_ret = NoReturn

\* apply_frame_axis0 ended with InvalidApply after the callback raised on
\* its second window; one piece had been collected.
C18_Witness ==
    /\ fa_pc = "raised" /\ fa_exc = "InvalidApply"
    /\ Len(fa_calls) = 2 /\ Len(fa_results) = 1
    /\ fa_calls[2].res = "raise"

\* ---- SeriesGrouper: 'No result.'

SGOver == sg_pc \in {"returned", "raised"}

\* The callback failed: it raised, or its first result does not reduce.
SGCallbackFailed == sg_exc \in {"callback", "does_not_reduce"}

\* Both sliders were constructed: the loop of get_result was entered.
SGSlidersBuilt == sg_vslider.built /\ sg_islider.built

\* C19: once the sliders are constructed, get_result fails with 'No result.'
\* exactly when the callback was never called, which is when every row is
\* labelled -1 or there is no row;
\* the two buffers are then as they were before the sliders were built; and
\* when some row has a label that is not -1 and the callback does not fail, a
\* result and the counts are returned.
C19_NoResult ==
    SGOver /\ SGSlidersBuilt =>
        /\ sg_exc = "no_result" <=> Len(sg_calls) = 0
        /\ Len(sg_calls) = 0 <=> \A k \in 1..sg_n : sg_labels[k] = -1
        /\ sg_exc = "no_result" =>
             /\ sg_pc = "raised" /\ sg_ret = NoReturn
             /\ sg_vslider.buf = DummyArr
             /\ sg_islider.buf = DummyIndex
        /\ (\E k \in 1..sg_n : sg_labels[k] # -1) /\ ~SGCallbackFailed =>
             /\ sg_pc = "returned"
             /\ sg_ret.kind = "result"
             /\ sg_ret.counts = sg_counts

\* Three rows, all labelled -1: the sliders were advanced over them, the
\* callback was never called, and the call failed with 'No result.'.
C19_Witness ==
    /\ SGOver /\ sg_exc = "no_result"
    /\ sg_n = 3
    /\ \A k \in 1..sg_n : sg_labels[k] = -1
    /\ sg_vslider.buf = DummyArr

\* ---- array_with_unit_to_datetime: the error policy

\* The element cannot be converted: it overflows, or is a string that is
\* not a number, or is of a type that is not a number.
UnitOverflows(val) ==
    /\ val.typ = "number" \/ (val.typ = "string" /\ val.sub = "numeric")
    /\ val.v # NPY_NAT
    /\ val.v * UnitMultiplier >= 2 ^ 30
NonNumeric(val) ==
    \/ val.typ = "string" /\ val.sub = "text"
    \/ val.typ = "other"
NonConvertible(val) == UnitOverflows(val) \/ NonNumeric(val)

\* A number that converts.
ConvertibleNumber(val) ==
    val.typ = "number" /\ val.v # NPY_NAT /\ ~UnitOverflows(val)

\* The first element, in order, that cannot be converted.
FirstNonConvertible ==
    CHOOSE k \in 1..Len(au_values) :
        /\ NonConvertible(au_values[k])
        /\ \A j \in 1..(k - 1) : ~NonConvertible(au_values[j])

\* C20 as stated: when an element cannot be converted, errors='coerce'
\* returns the numeric array with NaT there and the other numbers
\* converted; errors='raise' raises OutOfBoundsDatetime for an overflow and
\* ValueError for a string or type that is not a number; errors='ignore'
\* returns an object array of the same length holding every element that
\* cannot be converted as it was given and every number that converts as
\* its timestamp.
C20_PolicyObeyed ==
    (au_pc \in {"returned", "raised"}
       /\ \E k \in 1..Len(au_values) : NonConvertible(au_values[k])) =>
        CASE au_errors = "coerce" ->
               /\ au_ret.kind = "numeric"
               /\ Len(au_ret.arr) = Len(au_values)
               /\ \A k \in 1..Len(au_values) :
                    /\ NonConvertible(au_values[k])
                         => au_ret.arr[k] = NPY_NAT
                    /\ ConvertibleNumber(au_values[k])
                         => au_ret.arr[k] = au_values[k].v * UnitMultiplier
          [] au_errors = "raise" ->
               /\ au_pc = "raised"
               /\ au_kind = "O" =>
                    au_exc = IF UnitOverflows(au_values[FirstNonConvertible])
                             THEN "OutOfBoundsDatetime" ELSE "ValueError"
               /\ au_kind = "i" => au_exc = "OutOfBoundsDatetime"
          [] OTHER ->
               /\ au_ret.kind = "object"
               /\ Len(au_ret.arr) = Len(au_values)
               /\ \A k \in 1..Len(au_values) :
                    /\ NonConvertible(au_values[k])
                         => au_ret.arr[k] = au_values[k]
                    /\ ConvertibleNumber(au_values[k])
                         => au_ret.arr[k]
                              = TimestampOf(au_values[k].v * UnitMultiplier)

\* ---- the dummies on every exit path

SBOver == sb_pc \in {"returned", "raised"}

RDOver == rd_pc \in {"returned", "raised"}

\* The buffer a slider was built on has its pointer, length and stride back;
\* a slider that was never built repointed nothing.
SliderRestored(s, dummy) == IF s.built THEN s.buf = dummy ELSE TRUE

\* C21: on every exit path of the three get_result methods each dummy that
\* was repointed is restored: the Reducer's dummy has its data pointer back,
\* and the value dummy and the index dummy of the two groupers have their
\* original pointer, length and stride, also when the construction of the
\* second Slider fails.
C21_DummiesRestored ==
    /\ RDOver => rd_chunk = Ptr("dummy", 0)
    /\ SGOver => /\ SliderRestored(sg_vslider, DummyArr)
                 /\ SliderRestored(sg_islider, DummyIndex)
    /\ SBOver => /\ SliderRestored(sb_vslider, DummyArr)
                 /\ SliderRestored(sb_islider, DummyIndex)

\* ---- SeriesBinGrouper: the windows of the groups

\* The rows of group i (0-based) as the edges give them: from the edge before
\* it (0 for the first group) up to its own edge, the last group reaching
\* len(values).
GroupStart(i) == IF i = 0 THEN 0 ELSE sb_bins[i]
GroupEnd(i) == IF i = sb_ngroups - 1 THEN sb_n ELSE sb_bins[i + 1]

\* The rows a buffer shows, given the segment it should point into.
RowsShown(buf, seg) ==
    IF buf.data.seg = seg /\ buf.data.off % ItemSize = 0
    THEN { r \in 0..(sb_n - 1) :
             /\ buf.data.off \div ItemSize <= r
             /\ r < buf.data.off \div ItemSize + buf.shape }
    ELSE {}

MappingCleared(calls) == \A k \in 1..Len(calls) : calls[k].mapping = NoMapping

\* C23: in SeriesBinGrouper.get_result, SeriesGrouper.get_result and
\* apply_frame_axis0 the engine's mapping is cleared between the last change
\* of the index window and each call of the callback: no call observes a
\* mapping built over an earlier window, also after a run of -1 labels was
\* skipped.
C23_NoStaleMapping ==
    /\ MappingCleared(sg_calls)
    /\ MappingCleared(sb_calls)
    /\ MappingCleared(fa_calls)

\* Labels 0, -1, 1: the first call built a mapping over row 0, the sliders
\* advanced over the skipped row, and the second call saw row 2 with no
\* mapping.
C23_Witness ==
    /\ sg_labels = <<0, -1, 1>>
    /\ Len(sg_calls) = 2
    /\ sg_discarded = Mapping(sg_calls[1].index)
    /\ sg_calls[2].index.data = Ptr("index", 2 * ItemSize)
    /\ sg_calls[2].mapping = NoMapping

\* ---- array_to_datetime_object: the error policy

\* array_to_datetime handed the input to array_to_datetime_object: from the
\* except TypeError clause of the loop, or after the loop for mixed datetimes
\* and integers under ignore, or for offsets that differ.
ObjectCalled ==
    /\ ad_pc = "done"
    /\ \/ ad_exit = "TypeError"
       \/ /\ ad_exit = "completed"
          /\ ad_seen_datetime /\ ad_seen_integer => ad_errors # "raise"
          /\ \/ ad_seen_datetime /\ ad_seen_integer /\ ad_errors = "ignore"
             \/ /\ ReconcilesOffsets(ad_seen_datetime_offset, ad_utc)
                /\ ~IsSameOffsets(ad_out_tzoffset_vals)

\* array_to_datetime_object cannot convert the element: a string that is
\* not a null string and that the general parser rejects or that is out of
\* bounds, or an element that is neither null, nor a datetime, nor a string.
ObjectUnconvertible(val) ==
    IF val.typ = "string"
    THEN val.sub # "empty" /\ ~(val.sub \in {"iso", "dateutil"} /\ ~val.oob)
    ELSE val.typ \notin {"null", "datetime"}

\* C24, as claimed: when array_to_datetime_object meets elements it cannot
\* convert, under coerce it returns an object array with NaT at each of
\* their positions, under raise it raises, and under ignore it returns the
\* input array itself, with offset None.
C24_ObjectPolicy ==
    (ObjectCalled /\ \E k \in 1..Len(ad_values) :
                        ObjectUnconvertible(ad_values[k]))
        => CASE ad_errors = "coerce" ->
                  /\ ad_ret.kind = "object"
                  /\ \A k \in 1..Len(ad_values) :
                       ObjectUnconvertible(ad_values[k])
                           => ad_ret.arr[k] = PyNaT
             [] ad_errors = "raise" -> ad_ret.kind = "raise"
             [] OTHER -> ad_ret = Returned("values", ad_values, NoTz)

\* ---- format_array_from_datetime: the millisecond display

\* The precision was chosen for a call with neither format nor tz.
FMBasicChosen == fm_pc \in {"loop", "returned"} /\ fm_basic_format

\* The millisecond branch of the loop is the one taken.
MsBranch == fm_show_ms /\ ~fm_show_us /\ ~fm_show_ns

\* C25, as claimed: with neither format nor tz no value is shown with
\* exactly three digits after the point, the millisecond branch never being
\* the one taken.
C25_NeverThreeDigits ==
    FMBasicChosen =>
        /\ ~MsBranch
        /\ \A k \in 1..fm_i :
             fm_result[k].kind = "basic" => fm_result[k].digits # 3

\* C25, as the code has it: the millisecond branch is the one taken, and
\* every value that is not NaT is shown with exactly three digits, exactly
\* when all these values are whole milliseconds and one of them is not a
\* whole second.
C25_MillisecondDisplay ==
    FMBasicChosen =>
        /\ MsBranch <=> (LosesNothing(3) /\ ~LosesNothing(0))
        /\ \A k \in 1..fm_i :
             fm_passed[k] # NPY_NAT =>
                 /\ fm_result[k].kind = "basic"
                 /\ fm_result[k].digits = 3 <=> MsBranch

\* A NaT beside a second and a half: the latter is shown with three digits,
\* '.500'.
C25_Witness ==
    /\ fm_pc = "returned" /\ fm_basic_format
    /\ fm_passed = <<NPY_NAT, NsPerSecond + 500 * Thousand * Thousand>>
    /\ MsBranch
    /\ fm_result[2] = Rendered(1, 3, 500)

\* ---- array_to_datetime: the diversion on TypeError

\* The element is of a type array_to_datetime does not convert.
OtherType(val) ==
    val.typ \notin {"null", "datetime", "date", "dt64", "integer", "string"}

\* The loop ended in the except TypeError clause.
DivertedOnTypeError == ad_pc = "done" /\ ad_exit = "TypeError"

\* C26: when the loop ends on a TypeError the policy is not coerce, the
\* element is of a type that is not converted or a string the general parser
\* rejects, and the call gives what array_to_datetime_object gives for the
\* whole input: the input array itself with offset None under ignore, an
\* exception under raise, and never the numeric array; under coerce an
\* element of a type that is not converted is NaT in the numeric array and
\* the loop goes on.
C26_Diverted ==
    /\ DivertedOnTypeError =>
         /\ ad_errors # "coerce"
         /\ LET val == ad_values[ad_i + 1]
            IN  OtherType(val)
                \/ (val.typ = "string" /\ val.sub = "bad"
                    /\ ~ad_require_iso8601)
         /\ ad_ret = ArrayToDatetimeObject(ad_values, ad_errors, "TypeError")
         /\ ad_ret.kind \in {"values", "raise"}
         /\ ad_errors = "ignore" =>
              ad_ret = Returned("values", ad_values, NoTz)
         /\ ad_errors = "raise" => ad_ret.kind = "raise"
    /\ ad_errors = "coerce" =>
         \A k \in 1..Len(ad_values) :
             OtherType(ad_values[k]) /\ k <= ad_i =>
                 /\ ad_iresult[k] = NPY_NAT
                 /\ (ad_pc = "done" /\ ad_ret.kind = "numeric")
                        => ad_ret.arr[k] = NPY_NAT

\* Under ignore an integer was converted, then an element of another type
\* raised TypeError: the input array came back, the converted integer is in
\* no output.
C26_Witness ==
    /\ DivertedOnTypeError /\ ad_errors = "ignore"
    /\ Len(ad_values) = 2
    /\ ad_values[1].typ = "integer" /\ ad_iresult[1] = ad_values[1].t
    /\ OtherType(ad_values[2])
    /\ ad_ret = Returned("values", ad_values, NoTz)

\* ---------------------------------------------------------- specifications
\* A call of SeriesGrouper.get_result, over every label array of the bounds.
InitSeriesGrouper == SGInit /\ SBIdle /\ FAIdle /\ RDIdle /\ ADIdle /\ FMIdle /\ IPIdle /\ AUIdle
SpecSeriesGrouper == InitSeriesGrouper /\ [][SGNext]_vars

\* A call of SeriesBinGrouper.get_result, over every edge array of the bounds.
InitSeriesBinGrouper == SBInit /\ SGIdle /\ FAIdle /\ RDIdle /\ ADIdle /\ FMIdle /\ IPIdle /\ AUIdle
SpecSeriesBinGrouper == InitSeriesBinGrouper /\ [][SBNext]_vars

\* A call of apply_frame_axis0, over every number of ranges of the bounds.
InitApplyFrame == FAInit /\ SGIdle /\ SBIdle /\ RDIdle /\ ADIdle /\ FMIdle /\ IPIdle /\ AUIdle
SpecApplyFrame == InitApplyFrame /\ [][FANext]_vars

\* A call of Reducer.get_result, over every matrix of the bounds.
InitReducer == RDInit /\ SGIdle /\ SBIdle /\ FAIdle /\ ADIdle /\ FMIdle /\ IPIdle /\ AUIdle
SpecReducer == InitReducer /\ [][RDNext]_vars

\* A call of array_to_datetime, over every array of the bounds, error policy,
\* utc and require_iso8601.
InitArrayToDatetime == ADInit /\ SGIdle /\ SBIdle /\ FAIdle /\ RDIdle /\ FMIdle /\ IPIdle /\ AUIdle
SpecArrayToDatetime == InitArrayToDatetime /\ [][ADNext]_vars

\* A call of format_array_from_datetime, over every array of the bounds, with
\* and without tz, format and na_rep.
InitFormatArray == FMInit /\ SGIdle /\ SBIdle /\ FAIdle /\ RDIdle /\ ADIdle /\ IPIdle /\ AUIdle
SpecFormatArray == InitFormatArray /\ [][FMNext]_vars

\* A call of ints_to_pydatetime, over every array of the bounds, strategy of
\* tz and value of box.
InitIntsToPydatetime == IPInit /\ SGIdle /\ SBIdle /\ FAIdle /\ RDIdle /\ ADIdle /\ FMIdle /\ AUIdle
SpecIntsToPydatetime == InitIntsToPydatetime /\ [][IPNext]_vars

\* A call of one of the four engines that apply a callback.
InitCallbackEngine ==
    \/ InitSeriesGrouper
    \/ InitSeriesBinGrouper
    \/ InitApplyFrame
    \/ InitReducer
CallbackEngineNext == SGNext \/ SBNext \/ FANext \/ RDNext
SpecCallbackEngine == InitCallbackEngine /\ [][CallbackEngineNext]_vars

\* A call of array_with_unit_to_datetime with a unit other than 'ns', over
\* every array of the bounds, dtype kind and error policy.
InitArrayWithUnit == AUInit /\ SGIdle /\ SBIdle /\ FAIdle /\ RDIdle /\ ADIdle /\ FMIdle /\ IPIdle
SpecArrayWithUnit == InitArrayWithUnit /\ [][AUNext]_vars
====
